---- MODULE Spec2Model ----
(***************************************************************************)
(* A model of the zdvv proxy's token gate (pkg/common/auth), its           *)
(* revocation service, and the control server's signing-key rotation       *)
(* (cmd/control/routes.go).                                                *)
(*                                                                         *)
(* SpecGate      - the revocation service and the authentication           *)
(*                 middlewares, driven one call at a time.                 *)
(* SpecAuthority - concurrent GET /token requests against the control      *)
(*                 server's current signing key.                           *)
(***************************************************************************)
EXTENDS Integers, Sequences, FiniteSets, TLC

VARIABLES
    revokedTokens,  \* RevocationService.revokedTokens (the keys of the map)
    keyCache,       \* MultiKeyJWTValidator.keyCache: kid -> public key or NoKey
    published,      \* the key ids the KeyProvider currently returns
    now,            \* wall clock (time.Now().Unix()), in hours
    resp,           \* what the last call returned to its caller, NoResp when read
    revokeCalled,   \* history: the jtis Revoke has been called with
    accepted,       \* history: <<gate, jti>> of the tokens a gate has let through
    jwtKey,         \* control server: the current signing key (createRouter's jwtKey)
    db,             \* control server: key records in the store, kid -> record
    readers,        \* jwtKeyMutex: the requests holding the read lock
    writer,         \* jwtKeyMutex: the request holding the write lock, or NoReq
    pc,             \* GET /token: each request's position in the handler
    newKey,         \* GET /token: each request's local newKey
    status,         \* GET /token: the HTTP status written to each request
    signedWith,     \* GET /token: kid of the key each request signed its token with
    nextKid,        \* source of fresh key ids (rand.Int in NewJWTKey)
    seen,           \* history: kid of the key each request found expired at its first look
    rotations,      \* history: every assignment jwtKey = newKey, in order
    rpc,            \* getKey: each caller's position in the function
    rwant,          \* getKey: each caller's keyID argument
    rres,           \* getKey: what each caller was returned, and how it got it
    cacheWriter,    \* keyCacheMutex: the caller holding the write lock, or NoReq
    fetches,        \* history: the number of keyProvider.PublicKeys() calls made
    tunnel,         \* the CONNECT handler's locals and its two copy loops
    wire,           \* the two endpoints of a tunnel and the bytes in flight
    tokens,         \* GET /token: the token each request was answered with, until it expires
    issue,          \* one call of JWTKey.SignWithClaims: its inputs and its result
    servers,        \* the "server:*" hashes of the store, by proxyUrl
    nextToken,      \* source of fresh revocation tokens (rand.Read)
    fleetResp,      \* the answer of the last fleet request, until it is read
    granted,        \* history: the token the last registration of each proxyUrl returned
    adminResp,      \* the answer of the last /revoke request, until it is read
    mu,             \* RevocationService.mu: the callers holding it, reading or writing
    call,           \* RevocationService's concurrent callers: position, argument, result
    returned,       \* history: the jtis a Revoke call has returned for
    proxyMain,      \* cmd/proxy's main: its position, its server value, what its calls returned
    fetchRevoked    \* Client.FetchRevoked on a proxy: its position, the list it got, its result

gateVars == <<revokedTokens, keyCache, published, resp, revokeCalled, accepted>>
authVars == <<jwtKey, db, readers, writer, pc, newKey, status, signedWith,
              nextKid, seen, rotations, tokens>>
resolveVars == <<rpc, rwant, rres, cacheWriter, fetches>>
tunnelVars  == <<tunnel, wire>>
issueVars   == <<issue>>
fleetVars   == <<servers, nextToken, fleetResp, granted>>
adminVars   == <<adminResp>>
registryVars == <<mu, call, returned>>
clientVars   == <<proxyMain, fetchRevoked>>
extraVars   == <<registryVars, clientVars>>
serviceVars == <<issueVars, fleetVars, adminVars, extraVars>>
vars == <<revokedTokens, keyCache, published, now, resp, revokeCalled, accepted,
          jwtKey, db, readers, writer, pc, newKey, status, signedWith,
          nextKid, seen, rotations, rpc, rwant, rres, cacheWriter, fetches,
          tunnel, wire, tokens, issue, servers, nextToken, fleetResp,
          granted, adminResp, mu, call, returned,
          proxyMain, fetchRevoked>>

----------------------------------------------------------------------------
(* Values of JSON claims and header fields as encoding/json decodes them   *)
(* into interface{}: absent, bool, string or float64.                      *)

Absent    == [type |-> "absent",  b |-> FALSE, str |-> "", num |-> 0]
BoolV(x)  == [type |-> "bool",    b |-> x,     str |-> "", num |-> 0]
StrV(s)   == [type |-> "string",  b |-> FALSE, str |-> s,  num |-> 0]
NumV(n)   == [type |-> "float64", b |-> FALSE, str |-> "", num |-> n]

\* Public keys; NoKey is the nil *rsa.PublicKey.
NoKey == "nil"
Keys  == {"kA", "kB"}

\* The key the authority created under each key id (a key's material never
\* changes once it is published).
Kids == {"1", "2"}
KeyOf(kid) == IF kid = "1" THEN "kA" ELSE "kB"

\* Token ids known to the revocation service.
JTIs == {"j1", "j2"}

\* The last instant of the gate's clock.
GateMaxTime == 1

----------------------------------------------------------------------------
(* Tokens.  A token is what jwt.ParseUnverified yields from a well-formed  *)
(* compact token: the alg and kid header fields, the claims, and the key   *)
(* that produced the signature segment (for HS256: the key used as the     *)
(* HMAC secret; "unsigned" when the segment is empty).                     *)

RSAAlgs    == {"RS256"}
AlgSigs    == {<<"RS256", "kA">>, <<"RS256", "kB">>, <<"HS256", "kA">>,
               <<"none", "unsigned">>}
KidValues  == {Absent, StrV("1"), StrV("2"), StrV("3"), NumV(1)}
JtiValues  == {Absent, StrV("j1"), NumV(7)}
ExpValues  == {Absent, NumV(1)}
PermValues == {Absent, BoolV(TRUE), BoolV(FALSE), StrV("true"), StrV("yes")}

PERMISSION_CONNECT_TCP == "connect-tcp"
ClaimNames == {"jti", "exp", PERMISSION_CONNECT_TCP}

MapClaims(j, e, p) ==
    [n \in ClaimNames |-> IF n = "jti" THEN j ELSE IF n = "exp" THEN e ELSE p]

Tokens ==
    {[alg |-> a[1], sig |-> a[2], kid |-> k, claims |-> MapClaims(j, e, p)] :
        a \in AlgSigs, k \in KidValues, j \in JtiValues,
        e \in ExpValues, p \in PermValues}

\* The token the requests that carry no well-formed token are filled with.
NoToken == [alg |-> "none", sig |-> "unsigned", kid |-> Absent,
            claims |-> MapClaims(Absent, Absent, Absent)]

(* The authorization header value, as a sequence of its parts: a scheme    *)
(* word, the space, and the credentials, where "T" is the compact form of  *)
(* the request's token and "X" a string that is not a JWT.  <<>> is the    *)
(* empty string r.Header.Get returns for a missing header.                 *)
Headers == {<<>>, <<"Basic", " ", "T">>, <<"Bearer">>,
            <<"Bearer", " ", "X">>, <<"Bearer", " ", "T">>}

Requests ==
    {[header |-> <<"Bearer", " ", "T">>, tok |-> t] : t \in Tokens}
    \cup {[header |-> h, tok |-> NoToken] : h \in Headers \ {<<"Bearer", " ", "T">>}}

----------------------------------------------------------------------------
(* RevocationService (pkg/common/auth/revocation.go)                       *)

NewRevocationService == {}

IsRevoked(jti) == jti \in revokedTokens

\* The orders in which ranging over the map can produce its keys.
Perms(S) == {q \in [1..Cardinality(S) -> S] : \A x \in S : \E i \in DOMAIN q : q[i] = x}

----------------------------------------------------------------------------
(* Permission (pkg/common/auth/permissions.go)                             *)

\* Check, taking any string for a grant.
Check_AnyString(p, claims) ==
    LET val == claims[p] IN
    IF val.type = "absent" THEN FALSE
    ELSE IF val.type = "bool" THEN val.b
    ELSE IF val.type = "string" THEN TRUE
    ELSE FALSE

Check(p, claims) ==
    LET val == claims[p] IN
    IF val.type = "absent" THEN FALSE
    ELSE IF val.type = "bool" THEN val.b
    ELSE IF val.type = "string" THEN val.str = "true"
    ELSE FALSE

\* The first permission of the list the claims do not grant, "" if none.
RECURSIVE FirstMissing(_, _)
FirstMissing(permissions, claims) ==
    IF permissions = <<>> THEN ""
    ELSE IF ~Check(Head(permissions), claims) THEN Head(permissions)
    ELSE FirstMissing(Tail(permissions), claims)

\* requiredConnectPermissions of the proxy's main.
requiredConnectPermissions == <<PERMISSION_CONNECT_TCP>>

----------------------------------------------------------------------------
(* Header and token parsing                                                *)

DefaultAuthScheme == <<"Bearer">>

\* strings.SplitN(h, " ", 2)
SplitN2(h) ==
    IF \E i \in 1..Len(h) : h[i] = " "
    THEN LET i == CHOOSE k \in 1..Len(h) :
                      h[k] = " " /\ \A m \in 1..(k - 1) : h[m] # " "
         IN  <<SubSeq(h, 1, i - 1), SubSeq(h, i + 1, Len(h))>>
    ELSE <<h>>

\* An ExtractToken that takes the credentials of any scheme.
ExtractToken_AnyScheme(authHeader, scheme) ==
    IF authHeader = <<>> THEN [err |-> "NoAuthHeader", tokenStr |-> <<>>]
    ELSE LET parts == SplitN2(authHeader) IN
         IF Len(parts) # 2
         THEN [err |-> "InvalidScheme", tokenStr |-> <<>>]
         ELSE [err |-> "", tokenStr |-> parts[2]]

\* JWTValidator.ExtractToken; the same lines open MultiKeyJWTValidator.Middleware.
ExtractToken(authHeader, scheme) ==
    IF authHeader = <<>> THEN [err |-> "NoAuthHeader", tokenStr |-> <<>>]
    ELSE LET parts == SplitN2(authHeader) IN
         IF Len(parts) # 2 \/ parts[1] # scheme
         THEN [err |-> "InvalidScheme", tokenStr |-> <<>>]
         ELSE [err |-> "", tokenStr |-> parts[2]]

\* parser.ParseUnverified succeeds on a well-formed compact token only.
ParseUnverifiedOk(tokenStr) == tokenStr = <<"T">>

\* A key function that does not look at the signing method.
IsSigningMethodRSA_Unchecked(alg) == TRUE

\* The key function both validators hand to jwt.Parse accepts the RSA
\* signing methods only.
IsSigningMethodRSA(alg) == alg \in RSAAlgs

\* A verification that takes a signature made by any key.
VerifySignature_AnyKey(tok, key) == key # NoKey

\* An RSA signature verifies under the public key of the key that made it.
\* (Verification against the nil key is taken to fail.)
VerifySignature(tok, key) == key # NoKey /\ tok.sig = key

\* A claim validation that asks for one more hour of validity.
ExpValid_HourEarly(claims, t) ==
    \/ claims["exp"].type = "absent"
    \/ claims["exp"].type = "float64" /\ t + 1 < claims["exp"].num

\* jwt.Parse's claim validation: exp is checked when present and must lie
\* strictly in the future.
ExpValid(claims, t) ==
    \/ claims["exp"].type = "absent"
    \/ claims["exp"].type = "float64" /\ t < claims["exp"].num

\* jwt.Parse(tokenStr, keyFunc) with the validators' key function; "" when
\* the token is valid.
JwtParse(tokenStr, tok, key, t) ==
    IF ~ParseUnverifiedOk(tokenStr) THEN "malformed"
    ELSE IF ~IsSigningMethodRSA(tok.alg) THEN "unexpected signing method"
    ELSE IF ~VerifySignature(tok, key) THEN "signature is invalid"
    ELSE IF ~ExpValid(tok.claims, t) THEN "token is expired"
    ELSE ""

----------------------------------------------------------------------------
(* JWTValidator (pkg/common/auth/validator.go)                             *)

NewJWTValidator(publicKey, permissions) ==
    [PublicKey |-> publicKey, AllowNoneSignature |-> FALSE,
     Permissions |-> permissions]

NewInsecureJWTValidator(permissions) ==
    [PublicKey |-> NoKey, AllowNoneSignature |-> TRUE,
     Permissions |-> permissions]

\* validator.go:124-138 (and :90-104 on the 'none' path): the jti must be a
\* string and not revoked, then every permission must be granted.
CheckClaims(v, claims) ==
    IF claims["jti"].type = "string"
    THEN IF IsRevoked(claims["jti"].str) THEN "TokenRevoked"
         ELSE IF FirstMissing(v.Permissions, claims) # "" THEN "MissingPermission"
         ELSE ""
    ELSE "MissingJti"

\* JWTValidator.ValidateToken: the error, "" when the token is returned.
ValidateToken(v, tokenStr, tok) ==
    IF v.AllowNoneSignature /\ ParseUnverifiedOk(tokenStr) /\ tok.alg = "none"
    THEN CheckClaims(v, tok.claims)
    ELSE IF JwtParse(tokenStr, tok, v.PublicKey, now) # "" THEN "InvalidToken"
    ELSE CheckClaims(v, tok.claims)

\* A middleware that goes on to the wrapped handler after it has written
\* its error.
Outcome_NoReturn(err, key) ==
    [status |-> IF err = "" THEN 200 ELSE 401, handlerCalled |-> TRUE,
     ctxToken |-> TRUE, err |-> err, key |-> key]

\* What a middleware did with a request: the status it wrote (200 stands
\* for the wrapped handler's own answer), whether it called the wrapped
\* handler, whether the request context then carried the token, the error
\* it reported, and the public key it verified against.
Outcome(err, key) ==
    [status |-> IF err = "" THEN 200 ELSE 401, handlerCalled |-> err = "",
     ctxToken |-> err = "", err |-> err, key |-> key]

\* JWTValidator.Middleware
JWTValidatorMiddleware(v, req) ==
    LET ex == ExtractToken(req.header, DefaultAuthScheme) IN
    IF ex.err # "" THEN Outcome(ex.err, NoKey)
    ELSE Outcome(ValidateToken(v, ex.tokenStr, req.tok), v.PublicKey)

----------------------------------------------------------------------------
(* ProxyInsecureAuthenticator (auth/authenticator.go)                      *)

\* Middleware calls the wrapped handler whatever the request carries, and
\* puts no token into the context.
ProxyInsecureMiddleware(req) ==
    [status |-> 200, handlerCalled |-> TRUE, ctxToken |-> FALSE,
     err |-> "", key |-> NoKey]

----------------------------------------------------------------------------
(* MultiKeyJWTValidator (pkg/common/auth/multikeyvalidator_test.go:171-439) *)

\* Key ids as the cache knows them.
KeyIDs == {"1", "2", "3"}

NewMultiKeyJWTValidator(permissions) ==
    [keyCache |-> [k \in KeyIDs |-> NoKey], allowNoneSignature |-> FALSE,
     permissions |-> permissions]

\* fmt.Sprintf("%d", n) for n >= 0, which is also fmt.Sprintf("%v", f) for a
\* float64 f holding a small whole number.
Digit(d) == CASE d = 0 -> "0" [] d = 1 -> "1" [] d = 2 -> "2" [] d = 3 -> "3"
              [] d = 4 -> "4" [] d = 5 -> "5" [] d = 6 -> "6" [] d = 7 -> "7"
              [] d = 8 -> "8" [] OTHER -> "9"
RECURSIVE Sprintf(_)
Sprintf(n) == IF n < 10 THEN Digit(n) ELSE Sprintf(n \div 10) \o Digit(n % 10)

\* The switch that turns the kid header into the string key id
\* (multikeyvalidator_test.go:353-368); "" with ok = FALSE for other types.
ConvertKid(kidRaw) ==
    IF kidRaw.type = "string" THEN [ok |-> TRUE, keyID |-> kidRaw.str]
    ELSE IF kidRaw.type = "float64" THEN [ok |-> TRUE, keyID |-> Sprintf(kidRaw.num)]
    ELSE [ok |-> FALSE, keyID |-> ""]

\* keyProvider.PublicKeys(): the keys published now, or an error.
PublicKeys(fetchErr) ==
    [err |-> fetchErr, keys |-> [k \in published |-> KeyOf(k)]]

\* key, exists := v.keyCache[keyID]
CacheLookup(cache, keyID) ==
    IF keyID \in DOMAIN cache /\ cache[keyID] # NoKey
    THEN [key |-> cache[keyID], exists |-> TRUE]
    ELSE [key |-> NoKey, exists |-> FALSE]

\* A getKey that goes to the provider without a second look at the cache.
Recheck_Skipped(cache, keyID) == [key |-> NoKey, exists |-> FALSE]

\* The second look at the cache, under the write lock (getKey, line 239).
Recheck(cache, keyID) == CacheLookup(cache, keyID)

\* A getKey that empties the cache when the provider fails.
OnFetchError_CacheDropped(cache) == [k \in DOMAIN cache |-> NoKey]

\* The cache getKey leaves when PublicKeys() returns an error: it returns
\* before it has written anything (lines 249-252).
OnFetchError(cache) == cache

\* A getKey that does not keep the keys it fetched.
UpdateCache_Discarded(cache, keys) == cache

\* for id, pubKey := range keys { v.keyCache[id] = pubKey }
UpdateCache(cache, keys) ==
    [k \in DOMAIN cache |-> IF k \in DOMAIN keys THEN keys[k] ELSE cache[k]]

\* A getKey that hands back the nil key, and no error, for a key id the
\* provider does not know.
AfterFetch_NoError(cache, keyID) ==
    [key |-> CacheLookup(cache, keyID).key, err |-> ""]

\* The last look at the cache, after the update (getKey, lines 262-270).
AfterFetch(cache, keyID) ==
    IF CacheLookup(cache, keyID).exists
    THEN [key |-> CacheLookup(cache, keyID).key, err |-> ""]
    ELSE [key |-> NoKey, err |-> "KeyNotFound"]

\* MultiKeyJWTValidator.getKey, run without interruption: the key, the
\* error, the cache it leaves, and whether it called the provider ("no",
\* "failed" or "ok").
getKey(cache, keyID, fetchErr) ==
    IF CacheLookup(cache, keyID).exists
    THEN [key |-> CacheLookup(cache, keyID).key, err |-> "", cache |-> cache,
          fetched |-> "no"]
    ELSE IF Recheck(cache, keyID).exists
    THEN [key |-> Recheck(cache, keyID).key, err |-> "", cache |-> cache,
          fetched |-> "no"]
    ELSE LET got == PublicKeys(fetchErr) IN
         IF got.err
         THEN [key |-> NoKey, err |-> "FetchFailed", cache |-> OnFetchError(cache),
               fetched |-> "failed"]
         ELSE LET updated == UpdateCache(cache, got.keys) IN
              [key |-> AfterFetch(updated, keyID).key,
               err |-> AfterFetch(updated, keyID).err,
               cache |-> updated, fetched |-> "ok"]

\* MultiKeyJWTValidator.Middleware: the outcome and the cache it leaves.
MultiKeyMiddleware(v, req, fetchErr) ==
    LET ex  == ExtractToken(req.header, DefaultAuthScheme)
        tok == req.tok
        same(o) == [out |-> o, cache |-> v.keyCache, fetched |-> "no", getKeyErr |-> ""]
    IN
    IF ex.err # "" THEN same(Outcome(ex.err, NoKey))
    ELSE IF v.allowNoneSignature /\ ParseUnverifiedOk(ex.tokenStr) /\ tok.alg = "none"
    THEN IF FirstMissing(v.permissions, tok.claims) # ""
         THEN same(Outcome("MissingPermission", NoKey))
         ELSE same(Outcome("", NoKey))
    ELSE IF ~ParseUnverifiedOk(ex.tokenStr) THEN same(Outcome("InvalidToken", NoKey))
    ELSE IF tok.kid.type = "absent" THEN same(Outcome("MissingKid", NoKey))
    ELSE IF ~ConvertKid(tok.kid).ok THEN same(Outcome("InvalidKid", NoKey))
    ELSE LET got == getKey(v.keyCache, ConvertKid(tok.kid).keyID, fetchErr)
             after(o) == [out |-> o, cache |-> got.cache, fetched |-> got.fetched,
                         getKeyErr |-> got.err]
         IN
         IF got.err # "" THEN after(Outcome("KeyNotFound", NoKey))
         ELSE IF JwtParse(ex.tokenStr, tok, got.key, now) # ""
         THEN after(Outcome("InvalidToken", got.key))
         ELSE IF FirstMissing(v.permissions, tok.claims) # ""
         THEN after(Outcome("MissingPermission", got.key))
         ELSE after(Outcome("", got.key))

----------------------------------------------------------------------------
(* The gates of the proxy's mains, and the calls made on them              *)

\* main.go:122-124 builds one of the two JWTValidators; its public key is
\* the control server's key "1".
JWTGate         == NewJWTValidator(KeyOf("1"), requiredConnectPermissions)
JWTInsecureGate == NewInsecureJWTValidator(requiredConnectPermissions)
\* cmd/proxy main (unnamed/part_013:62)
MultiKeyGate    == [NewMultiKeyJWTValidator(requiredConnectPermissions)
                        EXCEPT !.keyCache = keyCache]

Gates == {"jwt", "jwtInsecure", "multikey", "proxyInsecure"}

NoOutcome == [status |-> 0, handlerCalled |-> FALSE, ctxToken |-> FALSE,
              err |-> "", key |-> NoKey]
NoResp == [op |-> "none", gate |-> "", req |-> [header |-> <<>>, tok |-> NoToken],
           out |-> NoOutcome, jti |-> "", result |-> FALSE, list |-> <<>>,
           fetched |-> "no", getKeyErr |-> ""]

\* The gates that look at the token; ProxyInsecureAuthenticator does not.
TokenGates == {"jwt", "jwtInsecure", "multikey"}

\* History: the <<gate, jti>> of the tokens with a string jti that a gate has
\* let through while Revoke had not been called with the jti, once the
\* answer r has been read.
Accepted(r) ==
    IF r.op = "request" /\ r.gate \in TokenGates /\ r.out.handlerCalled
       /\ r.req.tok.claims["jti"].type = "string"
       /\ r.req.tok.claims["jti"].str \notin revokeCalled
    THEN accepted \cup {<<r.gate, r.req.tok.claims["jti"].str>>}
    ELSE accepted

InitGate ==
    /\ revokedTokens = NewRevocationService
    /\ keyCache = NewMultiKeyJWTValidator(requiredConnectPermissions).keyCache
    /\ published = {"1"}
    /\ resp = NoResp
    /\ revokeCalled = {}
    /\ accepted = {}

\* A Revoke that forgets the entries made before.
Revoke_Forgetful(jti) ==
    /\ resp = NoResp
    /\ revokedTokens' = {jti}
    /\ revokeCalled' = revokeCalled \cup {jti}
    /\ UNCHANGED <<keyCache, published, now, resp, accepted>>
    /\ UNCHANGED <<authVars, resolveVars, tunnelVars, serviceVars>>

\* RevocationService.Revoke
Revoke(jti) ==
    /\ resp = NoResp
    /\ revokedTokens' = revokedTokens \cup {jti}
    /\ revokeCalled' = revokeCalled \cup {jti}
    /\ UNCHANGED <<keyCache, published, now, resp, accepted>>
    /\ UNCHANGED <<authVars, resolveVars, tunnelVars, serviceVars>>

\* A call of RevocationService.IsRevoked
IsRevokedCall(jti) ==
    /\ resp = NoResp
    /\ resp' = [NoResp EXCEPT !.op = "IsRevoked", !.jti = jti,
                              !.result = IsRevoked(jti)]
    /\ UNCHANGED <<revokedTokens, keyCache, published, now, revokeCalled, accepted>>
    /\ UNCHANGED <<authVars, resolveVars, tunnelVars, serviceVars>>

\* RevocationService.GetRevokedList
GetRevokedList ==
    /\ resp = NoResp
    /\ \E revokedList \in Perms(revokedTokens) :
           resp' = [NoResp EXCEPT !.op = "GetRevokedList", !.list = revokedList]
    /\ UNCHANGED <<revokedTokens, keyCache, published, now, revokeCalled, accepted>>
    /\ UNCHANGED <<authVars, resolveVars, tunnelVars, serviceVars>>

\* A request served by JWTValidator.Middleware, secure or insecure
JWTRequest(g, req) ==
    /\ resp = NoResp
    /\ g \in {"jwt", "jwtInsecure"}
    /\ LET v == IF g = "jwt" THEN JWTGate ELSE JWTInsecureGate
           o == JWTValidatorMiddleware(v, req)
       IN  /\ resp' = [NoResp EXCEPT !.op = "request", !.gate = g, !.req = req,
                                     !.out = o]
    /\ UNCHANGED <<revokedTokens, keyCache, published, now, revokeCalled, accepted>>
    /\ UNCHANGED <<authVars, resolveVars, tunnelVars, serviceVars>>

\* A request served by MultiKeyJWTValidator.Middleware
MultiKeyRequest(req, fetchErr) ==
    /\ resp = NoResp
    /\ LET r == MultiKeyMiddleware(MultiKeyGate, req, fetchErr) IN
           /\ resp' = [NoResp EXCEPT !.op = "request", !.gate = "multikey",
                                     !.req = req, !.out = r.out,
                                     !.fetched = r.fetched,
                                     !.getKeyErr = r.getKeyErr]
           /\ keyCache' = r.cache
    /\ UNCHANGED <<revokedTokens, published, now, revokeCalled, accepted>>
    /\ UNCHANGED <<authVars, resolveVars, tunnelVars, serviceVars>>

\* A request served by ProxyInsecureAuthenticator.Middleware
ProxyInsecureRequest(req) ==
    /\ resp = NoResp
    /\ resp' = [NoResp EXCEPT !.op = "request", !.gate = "proxyInsecure",
                              !.req = req, !.out = ProxyInsecureMiddleware(req)]
    /\ UNCHANGED <<revokedTokens, keyCache, published, now, revokeCalled, accepted>>
    /\ UNCHANGED <<authVars, resolveVars, tunnelVars, serviceVars>>

\* The caller has read the result of its call.
ReadResult ==
    /\ resp # NoResp
    /\ resp' = NoResp
    /\ accepted' = Accepted(resp)
    /\ UNCHANGED <<revokedTokens, keyCache, published, now, revokeCalled>>
    /\ UNCHANGED <<authVars, resolveVars, tunnelVars, serviceVars>>

\* The control server publishes the key of a further key id.
PublishKey(kid) ==
    /\ resp = NoResp
    /\ kid \notin published
    /\ published' = published \cup {kid}
    /\ UNCHANGED <<revokedTokens, keyCache, now, resp, revokeCalled, accepted>>
    /\ UNCHANGED <<authVars, resolveVars, tunnelVars, serviceVars>>

\* A key leaves the set the control server publishes: its record has
\* outlived its ttl in the store.  (This takes longer than the hour the
\* gate's clock covers; the callers of getKey below are followed for longer.)
RetireKey(kid) ==
    /\ resp = NoResp
    /\ kid \in published
    /\ published' = published \ {kid}
    /\ UNCHANGED <<revokedTokens, keyCache, now, resp, revokeCalled, accepted>>
    /\ UNCHANGED <<authVars, resolveVars, tunnelVars, serviceVars>>

\* Time passes at the proxy.
GateTick ==
    /\ resp = NoResp
    /\ now < GateMaxTime
    /\ now' = now + 1
    /\ UNCHANGED <<gateVars, resolveVars, tunnelVars, serviceVars>>
    /\ UNCHANGED <<authVars, resolveVars, tunnelVars, serviceVars>>

\* The driver makes one call at a time: it calls when it has read the last
\* result.
NextGate ==
    \/ resp = NoResp /\ \E jti \in JTIs : Revoke(jti)
    \/ resp = NoResp /\ \E jti \in JTIs : IsRevokedCall(jti)
    \/ GetRevokedList
    \/ resp = NoResp /\ \E g \in {"jwt", "jwtInsecure"}, req \in Requests : JWTRequest(g, req)
    \/ resp = NoResp /\ \E req \in Requests, fetchErr \in BOOLEAN : MultiKeyRequest(req, fetchErr)
    \/ resp = NoResp /\ \E req \in Requests : ProxyInsecureRequest(req)
    \/ ReadResult
    \/ resp = NoResp /\ \E kid \in Kids : PublishKey(kid)
    \/ GateTick

----------------------------------------------------------------------------
(* Concurrent callers of MultiKeyJWTValidator.getKey                       *)
(* (pkg/common/auth/multikeyvalidator_test.go:219-271)                     *)

\* The holder of a mutex nobody holds.
NoReq == 0

\* Concurrent callers of getKey.
NumRes    == 3
Resolvers == 1..NumRes

\* What a caller has been returned: nothing yet.  how is "cache" (found at
\* the first look), "recheck" (found at the second look) or "fetch"; fetched
\* says whether the caller called the provider, at is the number of that
\* call and pub the key ids the provider then returned.
NoResult == [key |-> NoKey, err |-> "", how |-> "", fetched |-> "no",
             at |-> 0, pub |-> {}]

InitResolve ==
    /\ rpc = [r \in Resolvers |-> "idle"]
    /\ rwant = [r \in Resolvers |-> ""]
    /\ rres = [r \in Resolvers |-> NoResult]
    /\ cacheWriter = NoReq
    /\ fetches = 0

\* getKey lines 223-232: the first look at the cache, under the read lock,
\* which no caller gets while another holds the write lock.
ResolveCheck(r, keyID) ==
    /\ rpc[r] = "idle"
    /\ cacheWriter = NoReq
    /\ rwant' = [rwant EXCEPT ![r] = keyID]
    /\ IF CacheLookup(keyCache, keyID).exists
       THEN /\ rres' = [rres EXCEPT ![r] =
                   [NoResult EXCEPT !.key = CacheLookup(keyCache, keyID).key,
                                    !.how = "cache"]]
            /\ rpc' = [rpc EXCEPT ![r] = "done"]
       ELSE /\ rpc' = [rpc EXCEPT ![r] = "lock"]
            /\ UNCHANGED rres
    /\ UNCHANGED <<cacheWriter, fetches, now>>
    /\ UNCHANGED <<gateVars, authVars, tunnelVars, serviceVars>>

\* getKey lines 235-242: Lock() returns and the caller looks at the cache a
\* second time; a caller that finds the key returns, which unlocks.
ResolveLock(r) ==
    /\ rpc[r] = "lock"
    /\ cacheWriter = NoReq
    /\ IF Recheck(keyCache, rwant[r]).exists
       THEN /\ rres' = [rres EXCEPT ![r] =
                   [NoResult EXCEPT !.key = Recheck(keyCache, rwant[r]).key,
                                    !.how = "recheck"]]
            /\ rpc' = [rpc EXCEPT ![r] = "done"]
            /\ UNCHANGED cacheWriter
       ELSE /\ rpc' = [rpc EXCEPT ![r] = "fetch"]
            /\ cacheWriter' = r
            /\ UNCHANGED rres
    /\ UNCHANGED <<rwant, fetches, now>>
    /\ UNCHANGED <<gateVars, authVars, tunnelVars, serviceVars>>

\* getKey lines 245-270: PublicKeys() returns, under the write lock; the
\* caller returns, which unlocks.
ResolveFetch(r, fetchErr) ==
    /\ rpc[r] = "fetch"
    /\ fetches' = fetches + 1
    /\ LET got == PublicKeys(fetchErr) IN
       IF got.err
       THEN /\ keyCache' = OnFetchError(keyCache)
            /\ rres' = [rres EXCEPT ![r] =
                   [NoResult EXCEPT !.err = "FetchFailed", !.how = "fetch",
                                    !.fetched = "failed", !.at = fetches + 1]]
       ELSE /\ keyCache' = UpdateCache(keyCache, got.keys)
            /\ rres' = [rres EXCEPT ![r] =
                   [key |-> AfterFetch(UpdateCache(keyCache, got.keys), rwant[r]).key,
                    err |-> AfterFetch(UpdateCache(keyCache, got.keys), rwant[r]).err,
                    how |-> "fetch", fetched |-> "ok", at |-> fetches + 1,
                    pub |-> DOMAIN got.keys]]
    /\ rpc' = [rpc EXCEPT ![r] = "done"]
    /\ cacheWriter' = NoReq
    /\ UNCHANGED <<rwant, now>>
    /\ UNCHANGED <<revokedTokens, published, resp, revokeCalled, accepted>>
    /\ UNCHANGED <<authVars, tunnelVars, serviceVars>>

NextResolve ==
    \/ \E r \in Resolvers, keyID \in KeyIDs : ResolveCheck(r, keyID)
    \/ \E r \in Resolvers : ResolveLock(r)
    \/ \E r \in Resolvers, fetchErr \in BOOLEAN : ResolveFetch(r, fetchErr)
    \/ \E kid \in Kids : PublishKey(kid)
    \/ \E kid \in Kids : RetireKey(kid)

----------------------------------------------------------------------------
(* The control server's signing key (cmd/control/routes.go, db.go,         *)
(* pkg/common JWTKey).  Time is counted in hours.                          *)

\* Concurrent GET /token requests.
NumReq == 3
Reqs   == 1..NumReq

\* The last key id NewJWTKey hands out (a request creates at most one key,
\* so with one id more than there are requests none waits for an id), and
\* the last instant of the clock.
MaxKeys == 4
MaxTime == 26

\* NewJWTKey: ExpiresAt = now + 24h.  PutJWTKey: the record lives until
\* ExpiresAt + 25h.  GET /token signs tokens valid for one hour.
KeyLifetime   == 24
KeyRetention  == 25
TokenLifetime == 1

\* The steps by which the clock advances.
TickSteps == {1, KeyLifetime}

\* NewJWTKey at time t with the fresh random key id kid.
NewJWTKey(kid, t) == [kid |-> kid, expiresAt |-> t + KeyLifetime]

\* JWTKey.IsExpired
IsExpired(key, t) == key.expiresAt < 0 \/ key.expiresAt < t

\* A handler that does not look at the key again once it has the write lock.
StillExpired_NoSecondLook(key, t) == TRUE

\* The second look at the key, under the write lock (routes.go:66).
StillExpired(key, t) == IsExpired(key, t)

\* RedisDatabase.PutJWTKey(val) at time t: whether it fails (the ttl is not
\* positive, or the store reports storeErr) and the records it leaves.
PutJWTKey(records, val, t, storeErr) ==
    LET ttl == (val.expiresAt + KeyRetention) - t IN
    IF ttl <= 0 \/ storeErr THEN [err |-> TRUE, records |-> records]
    ELSE [err |-> FALSE,
          records |-> {x \in records : x.kid # val.kid}
                      \cup {[kid |-> val.kid, expiresAt |-> val.expiresAt,
                             until |-> t + ttl]}]

NoNewKey == [kid |-> 0, expiresAt |-> 0]

\* RedisDatabase.GetAllActiveJWTKeys, as GET /.well-known/jwks.json answers
\* it: the key ids of the records the store still holds.
GetAllActiveJWTKeys(records) == {Sprintf(x.kid) : x \in records}

----------------------------------------------------------------------------
(* Token issuance: JWTKey.SignWithClaims (pkg/common, unnamed/part_004)     *)

\* The capabilities permissions.go names.
PERMISSION_CONNECT_UDP == "connect-udp"
PERMISSION_CONNECT_IP  == "connect-ip"
Permissions == {PERMISSION_CONNECT_TCP, PERMISSION_CONNECT_UDP, PERMISSION_CONNECT_IP}

\* GetPermissionStrings: string(p) for each Permission of the list.
GetPermissionStrings(permissions) == [i \in DOMAIN permissions |-> permissions[i]]

\* The issuer GET /token signs with.
ControlServerIssuer == "zdvv-control-server"

\* The values rand.Int returns for the jti.
IssuedJtis == {7, 8}

\* The claims SignWithClaims can set.
IssuedClaimNames == {"iss", "exp", "jti", "kid"} \cup Permissions

\* The public half of a signing key: the key published under its key id.
PublicKeyOf(key) == KeyOf(Sprintf(key.kid))

\* An exp that is the end of the signing key's own validity.
Expiry_OfTheKey(key, t, validDuration) == key.expiresAt

\* time.Now().Add(validDuration).Unix()
Expiry(key, t, validDuration) == t + validDuration

\* for _, permission := range permissions { claims[permission] = true }
RECURSIVE AddPermissions(_, _)
AddPermissions(claims, permissions) ==
    IF permissions = <<>> THEN claims
    ELSE AddPermissions([claims EXCEPT ![Head(permissions)] = BoolV(TRUE)],
                        Tail(permissions))

\* What a failed SignWithClaims returns in place of a token.
NoIssuedToken == [alg |-> "", sig |-> NoKey, kid |-> Absent,
                  claims |-> [n \in IssuedClaimNames |-> Absent]]

\* JWTKey.SignWithClaims at time t, rand.Int yielding jti; signErr says
\* whether rand.Int or SignedString fails.  The token is given as a reader
\* decodes it: the numbers (exp, jti) are JSON numbers, the kid claim and the
\* kid header field are strings, and the signature is the key's.
SignWithClaims(key, issuer, validDuration, permissions, t, jti, signErr) ==
    IF signErr THEN [err |-> TRUE, token |-> NoIssuedToken]
    ELSE [err |-> FALSE,
          token |->
            [alg |-> "RS256",
             sig |-> PublicKeyOf(key),
             kid |-> StrV(Sprintf(key.kid)),
             claims |-> AddPermissions(
                 [n \in IssuedClaimNames |->
                     IF n = "iss" THEN StrV(issuer)
                     ELSE IF n = "exp" THEN NumV(Expiry(key, t, validDuration))
                     ELSE IF n = "jti" THEN NumV(jti)
                     ELSE IF n = "kid" THEN StrV(Sprintf(key.kid))
                     ELSE Absent],
                 permissions)]]

\* An issued token as a gate reads it: the header fields and the claims the
\* validators look at.
AsPresented(token) ==
    [alg |-> token.alg, sig |-> token.sig, kid |-> token.kid,
     claims |-> [n \in ClaimNames |-> token.claims[n]]]

\* What a GET /token request that got no token holds.
NoIssued == [token |-> NoIssuedToken, at |-> 0]

\* createRouter: the first key is created and put into the store; the
\* result of that first PutJWTKey is not looked at.
InitAuthority ==
    /\ jwtKey = NewJWTKey(1, 0)
    /\ \E storeErr \in BOOLEAN :
           db = PutJWTKey({}, NewJWTKey(1, 0), 0, storeErr).records
    /\ readers = {}
    /\ writer = NoReq
    /\ pc = [r \in Reqs |-> "idle"]
    /\ newKey = [r \in Reqs |-> NoNewKey]
    /\ status = [r \in Reqs |-> 0]
    /\ signedWith = [r \in Reqs |-> 0]
    /\ nextKid = 2
    /\ seen = [r \in Reqs |-> 0]
    /\ rotations = <<>>
    /\ tokens = [r \in Reqs |-> NoIssued]

\* A handler whose early returns leave the write lock held.
Unlock_Forgotten(holder) == holder

\* defer jwtKeyMutex.Unlock() (routes.go:65): when the handler returns the
\* write lock has no holder.
Unlock(holder) == NoReq

\* jwtKeyMutex.RLock() returns: no request holds the write lock.  (A
\* request between its RUnlock and its Lock does not keep readers out.)
TokenRLock(r) ==
    /\ pc[r] = "idle"
    /\ writer = NoReq
    /\ readers' = readers \cup {r}
    /\ pc' = [pc EXCEPT ![r] = "check"]
    /\ UNCHANGED <<jwtKey, db, writer, newKey, status, signedWith, nextKid,
                   seen, rotations>>
    /\ UNCHANGED <<now, tokens>> /\ UNCHANGED <<gateVars, resolveVars, tunnelVars, serviceVars>>

\* routes.go:62-63, 80-81: the first look at the key, under the read lock;
\* an expired key makes the request give the read lock back and call Lock().
TokenCheck(r) ==
    /\ pc[r] = "check"
    /\ IF IsExpired(jwtKey, now)
       THEN /\ readers' = readers \ {r}
            /\ pc' = [pc EXCEPT ![r] = "lock"]
            /\ seen' = [seen EXCEPT ![r] = jwtKey.kid]
       ELSE /\ readers' = readers
            /\ pc' = [pc EXCEPT ![r] = "sign"]
            /\ seen' = seen
    /\ UNCHANGED <<jwtKey, db, writer, newKey, status, signedWith, nextKid, rotations>>
    /\ UNCHANGED <<now, tokens>> /\ UNCHANGED <<gateVars, resolveVars, tunnelVars, serviceVars>>

\* jwtKeyMutex.Lock() returns
TokenLock(r) ==
    /\ pc[r] = "lock"
    /\ readers = {}
    /\ writer = NoReq
    /\ writer' = r
    /\ pc' = [pc EXCEPT ![r] = IF StillExpired(jwtKey, now) THEN "newkey" ELSE "sign"]
    /\ UNCHANGED <<jwtKey, db, readers, newKey, status, signedWith, nextKid,
                   seen, rotations>>
    /\ UNCHANGED <<now, tokens>> /\ UNCHANGED <<gateVars, resolveVars, tunnelVars, serviceVars>>

\* routes.go:67-72: NewJWTKey, the old key is put into the store once more
\* (result ignored), and a failed key generation ends the request with 500.
TokenNewKey(r, genErr, storeErr) ==
    /\ pc[r] = "newkey"
    /\ nextKid <= MaxKeys
    /\ db' = PutJWTKey(db, jwtKey, now, storeErr).records
    /\ IF genErr
       THEN /\ status' = [status EXCEPT ![r] = 500]
            /\ writer' = Unlock(writer)
            /\ pc' = [pc EXCEPT ![r] = "done"]
            /\ UNCHANGED <<newKey, nextKid>>
       ELSE /\ newKey' = [newKey EXCEPT ![r] = NewJWTKey(nextKid, now)]
            /\ nextKid' = nextKid + 1
            /\ pc' = [pc EXCEPT ![r] = "store"]
            /\ UNCHANGED <<status, writer>>
    /\ UNCHANGED <<jwtKey, readers, signedWith, seen, rotations>>
    /\ UNCHANGED <<now, tokens>> /\ UNCHANGED <<gateVars, resolveVars, tunnelVars, serviceVars>>

\* A handler that takes the new key for its current key although the store
\* refused it.
OnStoreError_KeyReplaced(cur, new) == new

\* routes.go:73-77: a failed PutJWTKey returns before jwtKey = newKey.
OnStoreError(cur, new) == cur

\* routes.go:73-78: the new key is stored and becomes the current key; a
\* failed store ends the request with 500.
TokenStore(r, storeErr) ==
    /\ pc[r] = "store"
    /\ LET put == PutJWTKey(db, newKey[r], now, storeErr) IN
       IF put.err
       THEN /\ status' = [status EXCEPT ![r] = 500]
            /\ writer' = Unlock(writer)
            /\ pc' = [pc EXCEPT ![r] = "done"]
            /\ jwtKey' = OnStoreError(jwtKey, newKey[r])
            /\ UNCHANGED <<db, rotations>>
       ELSE /\ db' = put.records
            /\ jwtKey' = newKey[r]
            /\ rotations' = Append(rotations,
                   [from |-> jwtKey.kid, fromExpiresAt |-> jwtKey.expiresAt,
                    to |-> newKey[r].kid, by |-> r, at |-> now,
                    persisted |-> \E x \in put.records : x.kid = newKey[r].kid])
            /\ pc' = [pc EXCEPT ![r] = "sign"]
            /\ UNCHANGED <<status, writer>>
    /\ UNCHANGED <<readers, newKey, signedWith, nextKid, seen>>
    /\ UNCHANGED <<now, tokens>> /\ UNCHANGED <<gateVars, resolveVars, tunnelVars, serviceVars>>

\* routes.go:84-97 and the deferred unlock: the token is signed with the
\* current key, the response is written, and the lock the request holds is
\* released.
TokenSign(r, signErr) ==
    /\ pc[r] = "sign"
    /\ \E jti \in IssuedJtis :
         LET signed == SignWithClaims(jwtKey, ControlServerIssuer, TokenLifetime,
                           GetPermissionStrings(<<PERMISSION_CONNECT_TCP>>),
                           now, jti, signErr)
         IN
         IF signed.err
         THEN /\ status' = [status EXCEPT ![r] = 500]
              /\ UNCHANGED <<signedWith, tokens>>
         ELSE /\ status' = [status EXCEPT ![r] = 200]
              /\ signedWith' = [signedWith EXCEPT ![r] = jwtKey.kid]
              /\ tokens' = [tokens EXCEPT ![r] = [token |-> signed.token, at |-> now]]
    /\ IF writer = r
       THEN writer' = Unlock(writer) /\ readers' = readers
       ELSE writer' = writer /\ readers' = readers \ {r}
    /\ pc' = [pc EXCEPT ![r] = "done"]
    /\ UNCHANGED <<jwtKey, db, newKey, nextKid, seen, rotations>>
    /\ UNCHANGED <<now>> /\ UNCHANGED <<gateVars, resolveVars, tunnelVars, serviceVars>>

\* The tokens still of use at time t: a token whose exp has come is
\* dropped by whoever holds it.
Unexpired(issued, t) ==
    [r \in DOMAIN issued |->
        IF issued[r] # NoIssued /\ ExpValid(issued[r].token.claims, t)
        THEN issued[r] ELSE NoIssued]

\* Time passes at the control server; records past their ttl leave the store.
AuthorityTick(d) ==
    /\ now + d <= MaxTime
    /\ now' = now + d
    /\ db' = {x \in db : now + d < x.until}
    /\ tokens' = Unexpired(tokens, now + d)
    /\ UNCHANGED <<jwtKey, readers, writer, pc, newKey, status, signedWith,
                   nextKid, seen, rotations>>
    /\ UNCHANGED <<gateVars, resolveVars, tunnelVars, serviceVars>>

NextAuthority ==
    \/ \E r \in Reqs : TokenRLock(r)
    \/ \E r \in Reqs : TokenCheck(r)
    \/ \E r \in Reqs : TokenLock(r)
    \/ \E r \in Reqs, genErr \in BOOLEAN, storeErr \in BOOLEAN : TokenNewKey(r, genErr, storeErr)
    \/ \E r \in Reqs, storeErr \in BOOLEAN : TokenStore(r, storeErr)
    \/ \E r \in Reqs, signErr \in BOOLEAN : TokenSign(r, signErr)
    \/ \E d \in TickSteps : AuthorityTick(d)

----------------------------------------------------------------------------
(* The CONNECT tunnel: HandleConnectRequest (cmd/proxy/connect.go), reached *)
(* directly or through Proxy.ServeHTTP, and ConnectHandler.handleConnect   *)
(* (proxy/connect.go).  One request is followed from its arrival to the    *)
(* handler's return, together with the client and the target.             *)

Handlers == {"HandleConnectRequest", "Proxy.ServeHTTP", "handleConnect"}

\* r.Method, r.Host, r.URL.Host: "up" is a target that can be reached, "down"
\* one that cannot.
Methods == {"CONNECT", "GET"}
Hosts   == {"", "up", "down"}

\* What w.(http.Hijacker) and Hijack() do for the request's ResponseWriter.
Hijackers == {"ok", "unsupported", "error"}

TunnelRequests ==
    [via : Handlers, Method : Methods, Host : Hosts, URLHost : Hosts,
     hijacker : Hijackers]

\* Bytes an endpoint may send, and how many each endpoint sends at most.
Bytes    == {"a", "b"}
MaxBytes == 2

\* The handler before its first statement.  status is the status line the
\* client receives (0: none yet), wrote the WriteHeader calls made, in order.
NewTunnel(req) ==
    [req |-> req, pc |-> "method", host |-> "", status |-> 0, wrote |-> <<>>,
     dials |-> 0, dialErr |-> FALSE, targetConn |-> "nil", clientConn |-> "server",
     cancelled |-> FALSE, c2t |-> "notStarted", t2c |-> "notStarted"]

\* Nothing sent yet.  c2p and t2p are the bytes on their way to the proxy,
\* discarded the bytes of the client that sat in the reader Hijack() hands
\* back.
NewWire ==
    [clientSent |-> <<>>, c2p |-> <<>>, discarded |-> <<>>, targetRecv |-> <<>>,
     targetSent |-> <<>>, t2p |-> <<>>, clientRecv |-> <<>>,
     clientEOF |-> FALSE, targetEOF |-> FALSE]

InitTunnel ==
    /\ \E req \in TunnelRequests : tunnel = NewTunnel(req)
    /\ wire = NewWire

\* w.WriteHeader(code), also as http.Error makes it: the first call decides
\* the status, a later one is ignored.
WriteHeader(t, code) ==
    [t EXCEPT !.status = IF t.status = 0 THEN code ELSE t.status,
              !.wrote = Append(t.wrote, code)]

\* A handler that takes any method for CONNECT.
MethodIsConnect_Any(method) == TRUE

\* r.Method == http.MethodConnect
MethodIsConnect(method) == method = "CONNECT"

\* host := r.Host; if host == "" { host = r.URL.Host }
TargetHost(req) == IF req.Host = "" THEN req.URLHost ELSE req.Host

\* Whether the handler answers an empty host itself: HandleConnectRequest
\* does (connect.go:30-34), handleConnect has no such check.
ChecksEmptyHost(via) == via # "handleConnect"

\* A handler that leaves the target connection open when it returns.
CloseTarget_Forgotten(conn) == conn

\* defer targetConn.Close()
CloseTarget(conn) == IF conn = "open" THEN "closed" ELSE conn

\* defer clientConn.Close()
CloseClient(conn) == IF conn = "hijacked" THEN "closed" ELSE conn

\* The handler returns: its deferred calls run.
Return(t) ==
    [t EXCEPT !.pc = "returned",
              !.targetConn = CloseTarget(t.targetConn),
              !.clientConn = CloseClient(t.clientConn),
              !.cancelled = IF t.c2t # "notStarted" THEN TRUE ELSE t.cancelled]

\* A handler that dials again when the dial has failed.
OnDialError_Retry(t) == [t EXCEPT !.dialErr = TRUE, !.pc = "dial"]

\* The dial has failed: 502 and return.
OnDialError(t) == Return(WriteHeader([t EXCEPT !.dialErr = TRUE], 502))

\* connect.go:19-23 (and unnamed/part_010:30-39): not CONNECT, 405.
TunnelMethod ==
    /\ tunnel.pc = "method"
    /\ tunnel' = IF MethodIsConnect(tunnel.req.Method)
                 THEN [tunnel EXCEPT !.pc = "host"]
                 ELSE Return(WriteHeader(tunnel, 405))
    /\ UNCHANGED <<wire, now>>
    /\ UNCHANGED <<gateVars, authVars, resolveVars, serviceVars>>

\* connect.go:26-34: the target host; HandleConnectRequest answers an empty
\* one with 400.
TunnelHost ==
    /\ tunnel.pc = "host"
    /\ tunnel' = IF TargetHost(tunnel.req) = "" /\ ChecksEmptyHost(tunnel.req.via)
                 THEN Return(WriteHeader(tunnel, 400))
                 ELSE [tunnel EXCEPT !.pc = "dial", !.host = TargetHost(tunnel.req)]
    /\ UNCHANGED <<wire, now>>
    /\ UNCHANGED <<gateVars, authVars, resolveVars, serviceVars>>

\* A handler that takes the connection over without writing a status.
OnDialSuccess_NoStatus(t) == [t EXCEPT !.targetConn = "open", !.pc = "hijack"]

\* The dial has succeeded: the handler holds the target connection and
\* goes on to w.WriteHeader(http.StatusOK) (connect.go:45-48).
OnDialSuccess(t) == [t EXCEPT !.targetConn = "open", !.pc = "writeHeader"]

\* connect.go:38-44: net.DialTimeout; only a target that is up can be
\* reached, and the dial to it may still time out.
TunnelDial(dialOk) ==
    /\ tunnel.pc = "dial"
    /\ dialOk => tunnel.host = "up"
    /\ LET t == [tunnel EXCEPT !.dials = tunnel.dials + 1] IN
       tunnel' = IF dialOk THEN OnDialSuccess(t)
                 ELSE OnDialError(t)
    /\ UNCHANGED <<wire, now>>
    /\ UNCHANGED <<gateVars, authVars, resolveVars, serviceVars>>

\* connect.go:48: w.WriteHeader(http.StatusOK)
TunnelWriteHeader ==
    /\ tunnel.pc = "writeHeader"
    /\ tunnel' = [WriteHeader(tunnel, 200) EXCEPT !.pc = "hijack"]
    /\ UNCHANGED <<wire, now>>
    /\ UNCHANGED <<gateVars, authVars, resolveVars, serviceVars>>

\* connect.go:51-71: the connection is taken over.  Without a Hijacker the
\* handler calls http.Error with 500; when Hijack() fails HandleConnectRequest
\* returns and handleConnect calls http.Error with 500.  When it succeeds the
\* first k bytes the client has sent already are in the buffered reader
\* Hijack() returns, which the handler drops, and the two copies start.
TunnelHijack(k) ==
    /\ tunnel.pc = "hijack"
    /\ k \in 0..Len(wire.c2p)
    /\ IF tunnel.req.hijacker = "unsupported"
       THEN k = 0 /\ tunnel' = Return(WriteHeader(tunnel, 500)) /\ wire' = wire
       ELSE IF tunnel.req.hijacker = "error"
       THEN /\ k = 0
            /\ tunnel' = IF tunnel.req.via = "handleConnect"
                         THEN Return(WriteHeader(tunnel, 500))
                         ELSE Return(tunnel)
            /\ wire' = wire
       ELSE /\ tunnel' = [tunnel EXCEPT !.clientConn = "hijacked", !.pc = "relay",
                                        !.c2t = "copying", !.t2c = "copying"]
            /\ wire' = [wire EXCEPT !.discarded = SubSeq(wire.c2p, 1, k),
                                    !.c2p = SubSeq(wire.c2p, k + 1, Len(wire.c2p))]
    /\ UNCHANGED <<now>>
    /\ UNCHANGED <<gateVars, authVars, resolveVars, serviceVars>>

\* io.Copy(targetConn, clientConn) moves the next byte.
ClientToTargetCopy ==
    /\ tunnel.c2t = "copying"
    /\ tunnel.clientConn = "hijacked" /\ tunnel.targetConn = "open"
    /\ wire.c2p # <<>>
    /\ wire' = [wire EXCEPT !.c2p = Tail(wire.c2p),
                            !.targetRecv = Append(wire.targetRecv, Head(wire.c2p))]
    /\ UNCHANGED <<tunnel, now>>
    /\ UNCHANGED <<gateVars, authVars, resolveVars, serviceVars>>

\* io.Copy(targetConn, clientConn) returns, on the client's EOF, on a failed
\* write to a target that is gone, or because a connection has been closed;
\* the goroutine then calls cancel().
ClientToTargetEnd ==
    /\ tunnel.c2t = "copying"
    /\ \/ wire.c2p = <<>> /\ wire.clientEOF
       \/ wire.c2p # <<>> /\ wire.targetEOF
       \/ tunnel.clientConn = "closed"
       \/ tunnel.targetConn = "closed"
    /\ tunnel' = [tunnel EXCEPT !.c2t = "done", !.cancelled = TRUE]
    /\ UNCHANGED <<wire, now>>
    /\ UNCHANGED <<gateVars, authVars, resolveVars, serviceVars>>

\* io.Copy(clientConn, targetConn) moves the next byte.
TargetToClientCopy ==
    /\ tunnel.t2c = "copying"
    /\ tunnel.pc = "relay"
    /\ wire.t2p # <<>>
    /\ wire' = [wire EXCEPT !.t2p = Tail(wire.t2p),
                            !.clientRecv = Append(wire.clientRecv, Head(wire.t2p))]
    /\ UNCHANGED <<tunnel, now>>
    /\ UNCHANGED <<gateVars, authVars, resolveVars, serviceVars>>

\* io.Copy(clientConn, targetConn) returns, on the target's EOF or on a
\* failed write to a client that is gone; the handler calls cancel() and
\* returns (connect.go:89-100).
TargetToClientEnd ==
    /\ tunnel.t2c = "copying"
    /\ tunnel.pc = "relay"
    /\ \/ wire.t2p = <<>> /\ wire.targetEOF
       \/ wire.t2p # <<>> /\ wire.clientEOF
    /\ tunnel' = Return([tunnel EXCEPT !.t2c = "done"])
    /\ UNCHANGED <<wire, now>>
    /\ UNCHANGED <<gateVars, authVars, resolveVars, serviceVars>>

\* The request's context is cancelled from outside the handler.
TunnelCancel ==
    /\ tunnel.pc = "relay"
    /\ ~tunnel.cancelled
    /\ tunnel' = [tunnel EXCEPT !.cancelled = TRUE]
    /\ UNCHANGED <<wire, now>>
    /\ UNCHANGED <<gateVars, authVars, resolveVars, serviceVars>>

\* The client sends a byte after its CONNECT request (it need not wait for
\* the answer).
ClientSend(b) ==
    /\ tunnel.req.Method = "CONNECT"
    /\ tunnel.pc # "returned"
    /\ ~wire.clientEOF
    /\ Len(wire.clientSent) < MaxBytes
    /\ wire' = [wire EXCEPT !.clientSent = Append(wire.clientSent, b),
                            !.c2p = Append(wire.c2p, b)]
    /\ UNCHANGED <<tunnel, now>>
    /\ UNCHANGED <<gateVars, authVars, resolveVars, serviceVars>>

\* The client closes its side, or its connection breaks.
ClientClose ==
    /\ tunnel.pc = "relay"
    /\ ~wire.clientEOF
    /\ wire' = [wire EXCEPT !.clientEOF = TRUE]
    /\ UNCHANGED <<tunnel, now>>
    /\ UNCHANGED <<gateVars, authVars, resolveVars, serviceVars>>

\* The target sends a byte on the connection the dial has opened.
TargetSend(b) ==
    /\ tunnel.targetConn = "open"
    /\ ~wire.targetEOF
    /\ Len(wire.targetSent) < MaxBytes
    /\ wire' = [wire EXCEPT !.targetSent = Append(wire.targetSent, b),
                            !.t2p = Append(wire.t2p, b)]
    /\ UNCHANGED <<tunnel, now>>
    /\ UNCHANGED <<gateVars, authVars, resolveVars, serviceVars>>

\* The target closes its side, or its connection breaks.
TargetClose ==
    /\ tunnel.pc = "relay"
    /\ ~wire.targetEOF
    /\ wire' = [wire EXCEPT !.targetEOF = TRUE]
    /\ UNCHANGED <<tunnel, now>>
    /\ UNCHANGED <<gateVars, authVars, resolveVars, serviceVars>>

\* The steps the proxy takes by itself.
TunnelSteps ==
    \/ TunnelMethod
    \/ TunnelHost
    \/ \E dialOk \in BOOLEAN : TunnelDial(dialOk)
    \/ TunnelWriteHeader
    \/ \E k \in 0..MaxBytes : TunnelHijack(k)
    \/ ClientToTargetCopy
    \/ ClientToTargetEnd
    \/ TargetToClientCopy
    \/ TargetToClientEnd

\* The steps of the client, of the target, and of whoever cancels.
EndpointSteps ==
    \/ TunnelCancel
    \/ \E b \in Bytes : ClientSend(b)
    \/ ClientClose
    \/ \E b \in Bytes : TargetSend(b)
    \/ TargetClose

NextTunnel == TunnelSteps \/ EndpointSteps

----------------------------------------------------------------------------
(* One call of JWTKey.SignWithClaims, for any key, issuer, validity and     *)
(* permission list                                                         *)

\* The last instant of the issuer's clock.
IssueMaxTime == 2

\* The validDuration arguments: GET /token's hour, and a longer one.
ValidDurations == {TokenLifetime, TokenLifetime + KeyLifetime}

Issuers == {ControlServerIssuer, "other-issuer"}

\* The permission lists: every list of at most two capabilities, a
\* capability named twice included.
PermissionLists ==
    {<<>>} \cup {<<p>> : p \in Permissions}
           \cup {<<p, q>> : p \in Permissions, q \in Permissions}

\* No call made, no arguments chosen.
IdleIssue == [key |-> NoNewKey, issuer |-> "", validDuration |-> 0,
              permissions |-> <<>>, done |-> FALSE, at |-> 0, jti |-> 0,
              err |-> FALSE, token |-> NoIssuedToken]

InitIssue ==
    \E kid \in 1..MaxKeys, i \in Issuers, d \in ValidDurations,
       ps \in PermissionLists :
        issue = [IdleIssue EXCEPT !.key = NewJWTKey(kid, 0), !.issuer = i,
                                  !.validDuration = d, !.permissions = ps]

\* key.SignWithClaims(issuer, validDuration, permissions) returns.
IssueSign(jti, signErr) ==
    /\ ~issue.done
    /\ LET signed == SignWithClaims(issue.key, issue.issuer, issue.validDuration,
                                    issue.permissions, now, jti, signErr)
       IN  issue' = [issue EXCEPT !.done = TRUE, !.at = now, !.jti = jti,
                                  !.err = signed.err, !.token = signed.token]
    /\ UNCHANGED <<now>>
    /\ UNCHANGED <<gateVars, authVars, resolveVars, tunnelVars, fleetVars, adminVars, extraVars>>

\* Time passes before the call.
IssueTick ==
    /\ ~issue.done
    /\ now < IssueMaxTime
    /\ now' = now + 1
    /\ UNCHANGED <<gateVars, authVars, resolveVars, tunnelVars, serviceVars>>

NextIssue ==
    \/ \E jti \in IssuedJtis, signErr \in BOOLEAN : IssueSign(jti, signErr)
    \/ IssueTick

----------------------------------------------------------------------------
(* The fleet directory: POST /server, GET /servers and                      *)
(* DELETE /server/{revocationToken} (cmd/control/routes.go, db.go) and      *)
(* common.Server (unnamed/part_004)                                        *)

\* Successful registrations the model follows.
MaxRegistrations == 3

ProxyURLs == {"u1", "u2"}
Latitudes == {52, 91}

\* The fields of the Server struct and their json tags; "-" keeps a field
\* out of every encoding and decoding.
ServerFields == {"ProxyURL", "Latitude", "Longitude", "City", "Country",
                 "SupportsConnectTCP", "SupportsConnectUDP",
                 "SupportsConnectIP", "RevocationToken"}

\* A Server struct whose RevocationToken is tagged with its own name.
JSONTag_TokenTagged(field) ==
    CASE field = "ProxyURL" -> "proxyUrl"
      [] field = "Latitude" -> "latitude"
      [] field = "Longitude" -> "longitude"
      [] field = "City" -> "city"
      [] field = "Country" -> "country"
      [] field = "SupportsConnectTCP" -> "supportsConnectTcp"
      [] field = "SupportsConnectUDP" -> "supportsConnectUdp"
      [] field = "SupportsConnectIP" -> "supportsConnectIp"
      [] OTHER -> "revocationToken"

JSONTag(field) ==
    CASE field = "ProxyURL" -> "proxyUrl"
      [] field = "Latitude" -> "latitude"
      [] field = "Longitude" -> "longitude"
      [] field = "City" -> "city"
      [] field = "Country" -> "country"
      [] field = "SupportsConnectTCP" -> "supportsConnectTcp"
      [] field = "SupportsConnectUDP" -> "supportsConnectUdp"
      [] field = "SupportsConnectIP" -> "supportsConnectIp"
      [] OTHER -> "-"

\* The keys encoding/json writes for a Server, and the field behind each.
EncodedKeys == {JSONTag(f) : f \in ServerFields} \ {"-"}
FieldOf(tag) == CHOOSE f \in ServerFields : JSONTag(f) = tag

\* json.NewEncoder(w).Encode of one Server: an object with a member for
\* every field that is not tagged "-".
EncodeServer(server) == [k \in EncodedKeys |-> server[FieldOf(k)]]

\* The bodies sent to POST /server: a JSON object with the members of the
\* registration schema, which may carry a revocationToken member of the
\* client's own, or bytes that are not JSON.
FleetBodies ==
    {[malformed |-> m, proxyUrl |-> u, latitude |-> la, longitude |-> 13,
      city |-> c, country |-> "DE", supportsConnectTcp |-> f[1],
      supportsConnectUdp |-> f[2], supportsConnectIp |-> FALSE,
      revocationToken |-> t] :
        m \in {FALSE}, u \in ProxyURLs \cup {""}, la \in Latitudes,
        c \in {"Berlin", ""},
        f \in {<<TRUE, FALSE>>, <<FALSE, TRUE>>, <<FALSE, FALSE>>},
        t \in {"", "mine"}}
    \cup {[malformed |-> TRUE, proxyUrl |-> "", latitude |-> 0, longitude |-> 0,
           city |-> "", country |-> "", supportsConnectTcp |-> FALSE,
           supportsConnectUdp |-> FALSE, supportsConnectIp |-> FALSE,
           revocationToken |-> ""]}

\* json.NewDecoder(r.Body).Decode(&server): the members are stored into the
\* fields that carry their tag; no member reaches RevocationToken.
DecodeServer(body) ==
    [ProxyURL |-> body.proxyUrl, Latitude |-> body.latitude,
     Longitude |-> body.longitude, City |-> body.city, Country |-> body.country,
     SupportsConnectTCP |-> body.supportsConnectTcp,
     SupportsConnectUDP |-> body.supportsConnectUdp,
     SupportsConnectIP |-> body.supportsConnectIp,
     RevocationToken |-> ""]

\* Server.IsValid: "" when valid, the message otherwise.
IsValid(s) ==
    IF s.ProxyURL = "" THEN "proxyUrl is required"
    ELSE IF s.Latitude < -90 \/ s.Latitude > 90
    THEN "latitude must be between -90 and 90"
    ELSE IF s.Longitude < -180 \/ s.Longitude > 180
    THEN "longitude must be between -180 and 180"
    ELSE IF s.City = "" THEN "city is required"
    ELSE IF s.Country = "" THEN "country is required"
    ELSE IF ~s.SupportsConnectTCP /\ ~s.SupportsConnectUDP /\ ~s.SupportsConnectIP
    THEN "at least one connection type must be supported"
    ELSE ""

\* Server.GenerateRevocationToken: the base64 text of 32 fresh random bytes.
RevocationTokenOf(n) == "rt" \o Sprintf(n)
RevocationTokens == {RevocationTokenOf(n) : n \in 1..MaxRegistrations}

\* How the store keeps a number and a bool of a hash, and how db.go reads
\* them back (parseFloat, parseBool: the zero value for text that does not
\* parse).
FormatFloat(x) == Sprintf(x)
FormatBool(b) == IF b THEN "1" ELSE "0"
parseFloat(value) ==
    IF \E x \in 0..180 : Sprintf(x) = value
    THEN CHOOSE x \in 0..180 : Sprintf(x) = value
    ELSE 0
parseBool(value) == value \in {"1", "t", "T", "TRUE", "true", "True"}

\* The store holds no hash under a key.
NoHash == [proxyUrl |-> "", latitude |-> "", longitude |-> "", city |-> "",
           country |-> "", supportsConnectTcp |-> "", supportsConnectUdp |-> "",
           supportsConnectIp |-> "", revocationToken |-> ""]

\* RedisDatabase.AddServer: HSet of every field under "server:<proxyUrl>".
AddServer(store, val) ==
    [store EXCEPT ![val.ProxyURL] =
        [proxyUrl |-> val.ProxyURL,
         latitude |-> FormatFloat(val.Latitude),
         longitude |-> FormatFloat(val.Longitude),
         city |-> val.City, country |-> val.Country,
         supportsConnectTcp |-> FormatBool(val.SupportsConnectTCP),
         supportsConnectUdp |-> FormatBool(val.SupportsConnectUDP),
         supportsConnectIp |-> FormatBool(val.SupportsConnectIP),
         revocationToken |-> val.RevocationToken]]

\* The keys the scan of "server:*" finds.
ScanServers(store) == {u \in DOMAIN store : store[u] # NoHash}

\* RedisDatabase.GetAllServers: one Server per hash.
GetAllServers(store) ==
    {[ProxyURL |-> store[u].proxyUrl,
      Latitude |-> parseFloat(store[u].latitude),
      Longitude |-> parseFloat(store[u].longitude),
      City |-> store[u].city, Country |-> store[u].country,
      SupportsConnectTCP |-> parseBool(store[u].supportsConnectTcp),
      SupportsConnectUDP |-> parseBool(store[u].supportsConnectUdp),
      SupportsConnectIP |-> parseBool(store[u].supportsConnectIp),
      RevocationToken |-> store[u].revocationToken] : u \in ScanServers(store)}

\* The "servers" member of the GET /servers answer.
Listing(store) == {EncodeServer(s) : s \in GetAllServers(store)}

\* A RemoveServerByToken that deletes the first hash the scan finds.
MatchesToken_Any(hash, revocationToken) == TRUE

\* data["revocationToken"] == revocationToken
MatchesToken(hash, revocationToken) == hash.revocationToken = revocationToken

\* RedisDatabase.RemoveServerByToken: the hashes are looked at in the order
\* of the scan and the first whose token matches is deleted; found says
\* whether there was one.
RemoveServerByToken(store, revocationToken, first) ==
    IF first \in ScanServers(store) /\ MatchesToken(store[first], revocationToken)
    THEN [found |-> TRUE, store |-> [store EXCEPT ![first] = NoHash]]
    ELSE [found |-> FALSE, store |-> store]

\* The keys the loop of RemoveServerByToken can stop at: a key whose hash
\* matches, or none when no hash matches.
FirstMatches(store, revocationToken) ==
    IF \E u \in ScanServers(store) : MatchesToken(store[u], revocationToken)
    THEN {u \in ScanServers(store) : MatchesToken(store[u], revocationToken)}
    ELSE {""}

\* The Authorization header of a fleet request, in parts: "S" is
\* cfg.AuthSecret and "W" another string.
FleetAuthHeaders == {<<>>, <<"Bearer", " ", "S">>, <<"Bearer", " ", "W">>}
AuthSecret == "S"

\* routes.go:119-124: authHeader != "Bearer " + cfg.AuthSecret
Authorized(authHeader) == authHeader = <<"Bearer", " ", AuthSecret>>

\* The answer to a fleet request, with what it answers: whether the request
\* carried the secret (authorized) and whether the store or rand.Read
\* failed under it (failed).
NoFleetResp == [op |-> "none", status |-> 0, url |-> "", body |-> "",
                token |-> "", list |-> {}, authorized |-> FALSE,
                failed |-> FALSE]

InitFleet ==
    /\ servers = [u \in ProxyURLs |-> NoHash]
    /\ nextToken = 1
    /\ fleetResp = NoFleetResp
    /\ granted = [u \in ProxyURLs |-> ""]

\* POST /server
RegisterServer(authHeader, body, tokenErr, storeErr) ==
    /\ fleetResp = NoFleetResp
    /\ nextToken <= MaxRegistrations
    /\ LET server == DecodeServer(body)
           answer(code) == [NoFleetResp EXCEPT !.op = "register", !.status = code,
                                               !.url = body.proxyUrl,
                                               !.authorized = Authorized(authHeader),
                                               !.failed = tokenErr \/ storeErr]
       IN
       IF ~Authorized(authHeader)
       THEN fleetResp' = answer(401) /\ UNCHANGED <<servers, nextToken, granted>>
       ELSE IF body.malformed
       THEN fleetResp' = answer(400) /\ UNCHANGED <<servers, nextToken, granted>>
       ELSE IF IsValid(server) # ""
       THEN fleetResp' = [answer(400) EXCEPT !.body = IsValid(server)]
            /\ UNCHANGED <<servers, nextToken, granted>>
       ELSE IF tokenErr
       THEN fleetResp' = answer(500) /\ UNCHANGED <<servers, nextToken, granted>>
       ELSE LET revocationToken == RevocationTokenOf(nextToken)
                registered == [server EXCEPT !.RevocationToken = revocationToken]
            IN  /\ nextToken' = nextToken + 1
                /\ IF storeErr
                   THEN fleetResp' = answer(500) /\ UNCHANGED <<servers, granted>>
                   ELSE /\ servers' = AddServer(servers, registered)
                        /\ fleetResp' = [answer(200) EXCEPT !.token = revocationToken]
                        /\ granted' = [granted EXCEPT ![server.ProxyURL] = revocationToken]
    /\ UNCHANGED <<now>>
    /\ UNCHANGED <<gateVars, authVars, resolveVars, tunnelVars, issueVars, adminVars, extraVars>>

\* GET /servers
ListServers(storeErr) ==
    /\ fleetResp = NoFleetResp
    /\ fleetResp' = IF storeErr
                    THEN [NoFleetResp EXCEPT !.op = "list", !.status = 500,
                                             !.failed = TRUE]
                    ELSE [NoFleetResp EXCEPT !.op = "list", !.status = 200,
                                             !.list = Listing(servers)]
    /\ UNCHANGED <<servers, nextToken, granted, now>>
    /\ UNCHANGED <<gateVars, authVars, resolveVars, tunnelVars, issueVars, adminVars, extraVars>>

\* DELETE /server/{revocationToken}
DeleteServer(authHeader, revocationToken, storeErr) ==
    /\ fleetResp = NoFleetResp
    /\ LET answer(code) == [NoFleetResp EXCEPT !.op = "delete", !.status = code,
                                               !.token = revocationToken,
                                               !.authorized = Authorized(authHeader),
                                               !.failed = storeErr]
       IN
       IF ~Authorized(authHeader)
       THEN fleetResp' = answer(401) /\ UNCHANGED <<servers, granted>>
       ELSE IF storeErr
       THEN fleetResp' = answer(500) /\ UNCHANGED <<servers, granted>>
       ELSE \E first \in FirstMatches(servers, revocationToken) :
                LET removed == RemoveServerByToken(servers, revocationToken, first) IN
                IF removed.found
                THEN /\ servers' = removed.store
                     /\ fleetResp' = [answer(200) EXCEPT !.url = first]
                     /\ granted' = [granted EXCEPT ![first] = ""]
                ELSE fleetResp' = answer(500) /\ UNCHANGED <<servers, granted>>
    /\ UNCHANGED <<nextToken, now>>
    /\ UNCHANGED <<gateVars, authVars, resolveVars, tunnelVars, issueVars, adminVars, extraVars>>

\* The caller has read the answer.
FleetRead ==
    /\ fleetResp # NoFleetResp
    /\ fleetResp' = NoFleetResp
    /\ UNCHANGED <<servers, nextToken, granted, now>>
    /\ UNCHANGED <<gateVars, authVars, resolveVars, tunnelVars, issueVars, adminVars, extraVars>>

NextFleet ==
    \/ \E authHeader \in FleetAuthHeaders, body \in FleetBodies,
          tokenErr \in BOOLEAN, storeErr \in BOOLEAN :
           RegisterServer(authHeader, body, tokenErr, storeErr)
    \/ \E storeErr \in BOOLEAN : ListServers(storeErr)
    \/ \E authHeader \in FleetAuthHeaders,
          revocationToken \in RevocationTokens \cup {"bogus"},
          storeErr \in BOOLEAN :
           DeleteServer(authHeader, revocationToken, storeErr)
    \/ FleetRead

----------------------------------------------------------------------------
(* The admin API: AdminHandler and its authenticators (unnamed/part_021)    *)

AdminAuthenticators == {"standard", "insecure"}

\* The Authorization header of an admin request, in parts: "A" is the
\* admin token the authenticator was built with and "W" another string.
AdminToken == <<"A">>
AdminHeaders == {<<>>, <<"A">>, <<"Basic", " ", "A">>, <<"Bearer", " ", "W">>,
                 <<"Bearer", " ", "A">>}

\* The bodies of /revoke requests: {"jti": "<text>"}, with "" also standing
\* for an object without a jti member, or bytes that do not decode into a
\* RevokeRequest.
AdminBodies == {[malformed |-> FALSE, jti |-> j] : j \in JTIs \cup {""}}
               \cup {[malformed |-> TRUE, jti |-> ""]}

AdminRequests ==
    {[method |-> m, header |-> h, body |-> b] :
        m \in {"POST", "GET"}, h \in AdminHeaders, b \in AdminBodies}

\* An authenticator that takes any bearer token for the admin token.
TokenMatches_Any(given, adminToken) == TRUE

\* parts[1] != a.AdminToken
TokenMatches(given, adminToken) == given = adminToken

\* StandardAdminAuthenticator.Middleware: 0 when the wrapped handler is
\* called, the status written otherwise.
StandardAdminMiddleware(adminToken, authHeader) ==
    IF authHeader = <<>> THEN 401
    ELSE LET parts == SplitN2(authHeader) IN
         IF Len(parts) # 2 \/ parts[1] # <<"Bearer">> THEN 401
         ELSE IF ~TokenMatches(parts[2], adminToken) THEN 401
         ELSE 0

\* InsecureAdminAuthenticator.Middleware
InsecureAdminMiddleware(authHeader) == 0

\* AdminHandler.handleRevokeToken: the status written and the jti handed
\* to RevocationSvc.Revoke, "" when Revoke is not called.
handleRevokeToken(req) ==
    IF req.method # "POST" THEN [status |-> 405, revoke |-> ""]
    ELSE IF req.body.malformed THEN [status |-> 400, revoke |-> ""]
    ELSE IF req.body.jti = "" THEN [status |-> 400, revoke |-> ""]
    ELSE [status |-> 200, revoke |-> req.body.jti]

\* AdminHandler.HandleRevokeToken: the middleware, then the handler.
HandleRevokeToken(a, req) ==
    LET denied == IF a = "standard"
                  THEN StandardAdminMiddleware(AdminToken, req.header)
                  ELSE InsecureAdminMiddleware(req.header)
    IN  IF denied # 0 THEN [status |-> denied, revoke |-> ""]
        ELSE handleRevokeToken(req)

NoAdminResp == [op |-> "none", authenticator |-> "", status |-> 0,
                req |-> [method |-> "", header |-> <<>>,
                         body |-> [malformed |-> FALSE, jti |-> ""]]]

InitAdmin == adminResp = NoAdminResp

\* A request to /revoke, served by an AdminHandler built with the
\* authenticator a.
AdminRevoke(a, req) ==
    /\ adminResp = NoAdminResp
    /\ LET done == HandleRevokeToken(a, req) IN
           /\ adminResp' = [op |-> "revoke", authenticator |-> a,
                            status |-> done.status, req |-> req]
           /\ IF done.revoke # ""
              THEN /\ revokedTokens' = revokedTokens \cup {done.revoke}
                   /\ revokeCalled' = revokeCalled \cup {done.revoke}
              ELSE UNCHANGED <<revokedTokens, revokeCalled>>
    /\ UNCHANGED <<keyCache, published, now, resp, accepted>>
    /\ UNCHANGED <<authVars, resolveVars, tunnelVars, issueVars, fleetVars, extraVars>>

\* The caller has read the answer.
AdminRead ==
    /\ adminResp # NoAdminResp
    /\ adminResp' = NoAdminResp
    /\ UNCHANGED <<now>>
    /\ UNCHANGED <<gateVars, authVars, resolveVars, tunnelVars, issueVars, fleetVars, extraVars>>

NextAdmin ==
    \/ \E a \in AdminAuthenticators, req \in AdminRequests : AdminRevoke(a, req)
    \/ AdminRead

----------------------------------------------------------------------------
(* Concurrent callers of the RevocationService                             *)
(* (pkg/common/auth/revocation.go)                                         *)

\* Goroutines calling Revoke, the first of which call GetRevokedList as
\* well, and the jtis they revoke.
NumCallers == 3
NumListers == 2
Callers    == 1..NumCallers
Listers    == 1..NumListers
RevJtis    == {"j1", "j2", "j3"}

\* A caller between calls: pc is "idle", "store" (in Revoke, holding the
\* write lock) or "copy" (in GetRevokedList, holding a read lock); jti is
\* the argument of its Revoke, and list the slice its last GetRevokedList
\* returned.
IdleCaller == [pc |-> "idle", jti |-> "", list |-> <<>>]

IdleRegistry ==
    /\ mu = [writer |-> NoReq, readers |-> {}]
    /\ call = [c \in Callers |-> IdleCaller]
    /\ returned = {}

InitRegistry ==
    /\ revokedTokens = NewRevocationService
    /\ IdleRegistry

\* A Revoke that makes the map anew for its entry.
Insert_Replace(m, jti) == {jti}

\* s.revokedTokens[jti] = struct{}{}
Insert(m, jti) == m \cup {jti}

\* Revoke, line 22: s.mu.Lock() returns, when nobody holds the mutex.
RevokeLock(c, jti) ==
    /\ call[c].pc = "idle"
    /\ mu.writer = NoReq /\ mu.readers = {}
    /\ mu' = [mu EXCEPT !.writer = c]
    /\ call' = [call EXCEPT ![c].pc = "store", ![c].jti = jti]
    /\ revokeCalled' = revokeCalled \cup {jti}
    /\ UNCHANGED returned
    /\ UNCHANGED <<revokedTokens, keyCache, published, now, resp, accepted>>
    /\ UNCHANGED <<authVars, resolveVars, tunnelVars, issueVars, fleetVars, adminVars, clientVars>>

\* Revoke, lines 23-25: the entry is made and the deferred Unlock runs.
RevokeStore(c) ==
    /\ call[c].pc = "store"
    /\ revokedTokens' = Insert(revokedTokens, call[c].jti)
    /\ mu' = [mu EXCEPT !.writer = NoReq]
    /\ call' = [call EXCEPT ![c].pc = "idle", ![c].jti = ""]
    /\ returned' = returned \cup {call[c].jti}
    /\ UNCHANGED <<keyCache, published, now, resp, revokeCalled, accepted>>
    /\ UNCHANGED <<authVars, resolveVars, tunnelVars, issueVars, fleetVars, adminVars, clientVars>>

\* GetRevokedList, line 37: s.mu.RLock() returns, when nobody writes.
ListRLock(c) ==
    /\ call[c].pc = "idle"
    /\ mu.writer = NoReq
    /\ mu' = [mu EXCEPT !.readers = mu.readers \cup {c}]
    /\ call' = [call EXCEPT ![c].pc = "copy"]
    /\ UNCHANGED <<gateVars, now, returned>>
    /\ UNCHANGED <<authVars, resolveVars, tunnelVars, issueVars, fleetVars, adminVars, clientVars>>

\* GetRevokedList, lines 38-45: a new slice is filled from the map, in the
\* order the range produces, and the deferred RUnlock runs.
ListCopy(c) ==
    /\ call[c].pc = "copy"
    /\ \E revokedList \in Perms(revokedTokens) :
           call' = [call EXCEPT ![c].pc = "idle", ![c].list = revokedList]
    /\ mu' = [mu EXCEPT !.readers = mu.readers \ {c}]
    /\ UNCHANGED <<gateVars, now, returned>>
    /\ UNCHANGED <<authVars, resolveVars, tunnelVars, issueVars, fleetVars, adminVars, clientVars>>

NextRegistry ==
    \/ \E c \in Callers, jti \in RevJtis : RevokeLock(c, jti)
    \/ \E c \in Callers : RevokeStore(c)
    \/ \E c \in Listers : ListRLock(c)
    \/ \E c \in Listers : ListCopy(c)

----------------------------------------------------------------------------
(* The proxy as its mains wire it: an http.Server whose handler is the      *)
(* authenticator's Middleware around the CONNECT handler                   *)
(* (unnamed/part_013:58-68, main.go:119-131, cmd/proxy/http.go:70-132)      *)

\* The authenticator and the handler it wraps: cmd/proxy's main wraps the
\* Proxy service in the MultiKeyJWTValidator, the older main wraps the
\* ConnectHandler in one of the two JWTValidators.
Wirings ==
    {[gate |-> "multikey",    via |-> "Proxy.ServeHTTP"],
     [gate |-> "jwt",         via |-> "handleConnect"],
     [gate |-> "jwtInsecure", via |-> "handleConnect"]}

\* The requests sent to the wired proxy: what the gate looks at ...
WiredRequests ==
    [header : {<<>>, <<"Basic", " ", "T">>, <<"Bearer", " ", "T">>},
     tok : {t \in Tokens : /\ t.kid = StrV("1")
                           /\ <<t.alg, t.sig>> # <<"HS256", "kA">>
                           /\ t.claims["jti"] \in {Absent, StrV("j1")}
                           /\ t.claims["exp"] = NumV(1)
                           /\ t.claims[PERMISSION_CONNECT_TCP] \in {Absent, BoolV(TRUE)}}]

\* ... and what the handler looks at.
WiredTunnelRequests ==
    {q \in TunnelRequests : /\ q.Host \in {"up", "down"} /\ q.URLHost = ""
                            /\ q.hijacker \in {"ok", "unsupported"}}

\* The server before a request has come in.
Listening == [NewTunnel(CHOOSE q \in WiredTunnelRequests : TRUE) EXCEPT !.pc = "listen"]

\* What the middleware leaves of the request: next.ServeHTTP(w, r) runs the
\* handler from its first statement; http.Error(w, ..., 401) and return
\* ends the request without it.
ServeNext(o, q) ==
    IF o.handlerCalled THEN NewTunnel(q)
    ELSE [WriteHeader(NewTunnel(q), o.status) EXCEPT !.pc = "rejected"]

InitWired ==
    /\ tunnel = Listening
    /\ wire = NewWire

\* A request comes in: the server calls the middleware, which answers it
\* or calls the handler.
ProxyServe(w, req, q, fetchErr) ==
    /\ tunnel.pc = "listen"
    /\ resp = NoResp
    /\ q.via = w.via
    /\ w.gate # "multikey" => ~fetchErr
    /\ LET r == IF w.gate = "multikey"
                THEN MultiKeyMiddleware(MultiKeyGate, req, fetchErr)
                ELSE [out |-> JWTValidatorMiddleware(
                                  IF w.gate = "jwt" THEN JWTGate ELSE JWTInsecureGate,
                                  req),
                      cache |-> keyCache, fetched |-> "no", getKeyErr |-> ""]
       IN  /\ resp' = [NoResp EXCEPT !.op = "request", !.gate = w.gate,
                                     !.req = req, !.out = r.out,
                                     !.fetched = r.fetched,
                                     !.getKeyErr = r.getKeyErr]
           /\ keyCache' = r.cache
           /\ tunnel' = ServeNext(r.out, q)
    /\ UNCHANGED <<revokedTokens, published, now, revokeCalled, accepted, wire>>
    /\ UNCHANGED <<authVars, resolveVars, serviceVars>>

NextWired ==
    \/ \E jti \in JTIs : Revoke(jti)
    \/ tunnel.pc = "listen" /\
           \E w \in Wirings, req \in WiredRequests, q \in WiredTunnelRequests,
              fetchErr \in BOOLEAN : ProxyServe(w, req, q, fetchErr)
    \/ TunnelSteps
    \/ EndpointSteps

----------------------------------------------------------------------------
(* The proxy's registration with the control server: cmd/proxy's main      *)
(* (unnamed/part_013:42-56) and HTTPControlServer.RegisterProxyServer and  *)
(* DeregisterProxyServer (cmd/control/routes.go:308-382)                   *)

\* ProxyConfig.CreateServer: the server value main registers; it leaves
\* RevocationToken at its zero value.
CreateServer ==
    [f \in ServerFields |->
        CASE f = "ProxyURL" -> "u1"
          [] f = "Latitude" -> 52
          [] f = "Longitude" -> 13
          [] f = "City" -> "Berlin"
          [] f = "Country" -> "DE"
          [] f = "SupportsConnectTCP" -> TRUE
          [] f = "SupportsConnectUDP" -> FALSE
          [] f = "SupportsConnectIP" -> FALSE
          [] OTHER -> ""]

\* The body json.Marshal(server) makes, as POST /server reads it: a member
\* for each tagged field and none for RevocationToken.
MarshalServer(server) ==
    LET enc == EncodeServer(server) IN
    [malformed |-> FALSE, proxyUrl |-> enc["proxyUrl"], latitude |-> enc["latitude"],
     longitude |-> enc["longitude"], city |-> enc["city"], country |-> enc["country"],
     supportsConnectTcp |-> enc["supportsConnectTcp"],
     supportsConnectUdp |-> enc["supportsConnectUdp"],
     supportsConnectIp |-> enc["supportsConnectIp"],
     revocationToken |-> IF "revocationToken" \in DOMAIN enc
                         THEN enc["revocationToken"] ELSE ""]

\* req.Header.Set("Authorization", fmt.Sprintf("Bearer %s", h.SharedSecret))
SharedSecretHeader == <<"Bearer", " ", AuthSecret>>

\* What a call leaves of the caller's variable when the callee has
\* assigned to its parameter: RegisterProxyServer(server common.Server)
\* takes the struct by value, so 'server.RevocationToken = ...' (line 347)
\* changes the callee's copy and the caller's variable stays as it was.
ByValue(argument, parameter) == argument

\* main before its call of RegisterProxyServer.  given is the token the
\* control server answered the registration with, sent the token the
\* DELETE carried ("" when there was none).
NewProxyMain ==
    [pc |-> "register", server |-> CreateServer, regErr |-> FALSE,
     deregErr |-> FALSE, given |-> "", sent |-> ""]

\* RegisterProxyServer, lines 309-331: the POST is built and sent; a
\* transport error is returned to main, which logs it and goes on.
ProxyRegister(netErr) ==
    /\ proxyMain.pc = "register"
    /\ fleetResp = NoFleetResp
    /\ proxyMain' = IF netErr
                    THEN [proxyMain EXCEPT !.pc = "serving", !.regErr = TRUE]
                    ELSE [proxyMain EXCEPT !.pc = "posting"]
    /\ UNCHANGED <<fetchRevoked, now>>
    /\ UNCHANGED <<gateVars, authVars, resolveVars, tunnelVars, issueVars,
                   fleetVars, adminVars, registryVars>>

\* RegisterProxyServer, lines 333-350, and DeregisterProxyServer, lines
\* 376-381: the control server's answer has come.  A status other than 200
\* is an error; the token of a registration is stored into the callee's
\* server.
ProxyResponse ==
    /\ \/ proxyMain.pc = "posting" /\ fleetResp.op = "register"
       \/ proxyMain.pc = "deleting" /\ fleetResp.op = "delete"
    /\ proxyMain' =
         IF proxyMain.pc = "posting"
         THEN IF fleetResp.status # 200
              THEN [proxyMain EXCEPT !.pc = "serving", !.regErr = TRUE]
              ELSE [proxyMain EXCEPT
                       !.pc = "serving", !.given = fleetResp.token,
                       !.server = ByValue(proxyMain.server,
                                      [proxyMain.server EXCEPT
                                          !["RevocationToken"] = fleetResp.token])]
         ELSE [proxyMain EXCEPT !.pc = "exited",
                                !.deregErr = fleetResp.status # 200]
    /\ fleetResp' = NoFleetResp
    /\ UNCHANGED <<servers, nextToken, granted, fetchRevoked, now>>
    /\ UNCHANGED <<gateVars, authVars, resolveVars, tunnelVars, issueVars,
                   adminVars, registryVars>>

\* main returns and its deferred DeregisterProxyServer(server) runs, lines
\* 354-374: without a token it returns an error and sends nothing; with
\* one it sends the DELETE for it.
ProxyDeregister(netErr) ==
    /\ proxyMain.pc = "serving"
    /\ fleetResp = NoFleetResp
    /\ proxyMain' =
         IF proxyMain.server["RevocationToken"] = "" \/ netErr
         THEN [proxyMain EXCEPT !.pc = "exited", !.deregErr = TRUE]
         ELSE [proxyMain EXCEPT !.pc = "deleting",
                                !.sent = proxyMain.server["RevocationToken"]]
    /\ UNCHANGED <<fetchRevoked, now>>
    /\ UNCHANGED <<gateVars, authVars, resolveVars, tunnelVars, issueVars,
                   fleetVars, adminVars, registryVars>>

\* The control server serves the proxy's requests, and those of whoever
\* else asks: listings, and DELETEs with any header and token.
NextClient ==
    \/ \E netErr \in BOOLEAN : ProxyRegister(netErr)
    \/ proxyMain.pc = "posting" /\
           \E tokenErr \in BOOLEAN, storeErr \in BOOLEAN :
               RegisterServer(SharedSecretHeader, MarshalServer(proxyMain.server),
                              tokenErr, storeErr)
    \/ ProxyResponse
    \/ \E netErr \in BOOLEAN : ProxyDeregister(netErr)
    \/ proxyMain.pc # "posting" /\
           \E authHeader \in FleetAuthHeaders, revocationToken \in RevocationTokens,
              storeErr \in BOOLEAN :
               /\ proxyMain.pc = "deleting" =>
                      (authHeader = SharedSecretHeader /\ revocationToken = proxyMain.sent)
               /\ DeleteServer(authHeader, revocationToken, storeErr)
    \/ proxyMain.pc \notin {"posting", "deleting"} /\
           \E storeErr \in BOOLEAN : ListServers(storeErr)
    \/ proxyMain.pc \notin {"posting", "deleting"} /\ FleetRead

----------------------------------------------------------------------------
(* The proxy's copy of the revocation list: Client.FetchRevoked             *)
(* (controlserver/client.go:113-138), called every 30 minutes               *)
(* (main.go:83-90)                                                         *)

\* Calls of FetchRevoked the model follows.
MaxFetches == 2

\* The lists GET /revoked may answer with.
RevokedLists == UNION {Perms(S) : S \in SUBSET RevJtis}

\* The ways a fetch ends before the list is there: the transport fails,
\* the status is not 200, the body does not decode.
FetchFailures == {"transport", "status", "decode"}

\* No call in progress: calls counts the calls made, list is what the last
\* call received, rest what it has still to revoke, done whether the last
\* call has returned and err what it returned.
IdleFetch == [pc |-> "idle", calls |-> 0, list |-> <<>>, rest |-> <<>>,
              done |-> FALSE, err |-> ""]

IdleClients ==
    /\ proxyMain = NewProxyMain
    /\ fetchRevoked = IdleFetch

\* A client that forgets what it had when the fetch fails.
OnRevokedFetchError_Cleared(local) == {}

\* FetchRevoked returns the error before it has touched c.revocation
\* (lines 116-133).
OnRevokedFetchError(local) == local

\* FetchRevoked, lines 114-133: the request is made and answered.
FetchRevokedGet(failure, list) ==
    /\ fetchRevoked.pc = "idle"
    /\ fetchRevoked.calls < MaxFetches
    /\ resp = NoResp
    /\ IF failure # ""
       THEN /\ fetchRevoked' = [fetchRevoked EXCEPT
                                   !.calls = fetchRevoked.calls + 1,
                                   !.list = <<>>, !.rest = <<>>,
                                   !.done = TRUE, !.err = failure]
            /\ revokedTokens' = OnRevokedFetchError(revokedTokens)
       ELSE /\ fetchRevoked' = [fetchRevoked EXCEPT
                                   !.pc = "loop",
                                   !.calls = fetchRevoked.calls + 1,
                                   !.list = list, !.rest = list,
                                   !.done = FALSE, !.err = ""]
            /\ UNCHANGED revokedTokens
    /\ UNCHANGED <<keyCache, published, now, resp, revokeCalled, accepted, proxyMain>>
    /\ UNCHANGED <<authVars, resolveVars, tunnelVars, issueVars, fleetVars,
                   adminVars, registryVars>>

\* FetchRevoked, lines 134-136: c.revocation.Revoke(jti) for the next jti
\* of the list.
FetchRevokedLoop ==
    /\ fetchRevoked.pc = "loop"
    /\ fetchRevoked.rest # <<>>
    /\ revokedTokens' = Insert(revokedTokens, Head(fetchRevoked.rest))
    /\ fetchRevoked' = [fetchRevoked EXCEPT !.rest = Tail(fetchRevoked.rest)]
    /\ UNCHANGED <<keyCache, published, now, resp, revokeCalled, accepted, proxyMain>>
    /\ UNCHANGED <<authVars, resolveVars, tunnelVars, issueVars, fleetVars,
                   adminVars, registryVars>>

\* FetchRevoked, line 137: the list is done, return nil.
FetchRevokedReturn ==
    /\ fetchRevoked.pc = "loop"
    /\ fetchRevoked.rest = <<>>
    /\ fetchRevoked' = [fetchRevoked EXCEPT !.pc = "idle", !.done = TRUE]
    /\ UNCHANGED <<gateVars, now, proxyMain>>
    /\ UNCHANGED <<authVars, resolveVars, tunnelVars, issueVars, fleetVars,
                   adminVars, registryVars>>

\* The proxy fetches the list again and again, while tokens are revoked
\* and looked up locally.
NextFetch ==
    \/ \E failure \in FetchFailures \cup {""}, list \in RevokedLists :
           FetchRevokedGet(failure, list)
    \/ FetchRevokedLoop
    \/ FetchRevokedReturn
    \/ \E jti \in JTIs : Revoke(jti)

----------------------------------------------------------------------------
(* Specifications                                                          *)

\* The state in which no token is being signed by hand, the fleet
\* directory is empty and nothing has reached the admin API.
IdleService ==
    /\ issue = IdleIssue
    /\ InitFleet
    /\ InitAdmin
    /\ IdleRegistry
    /\ IdleClients

InitSpecGate ==
    /\ InitGate
    /\ now = 0
    /\ jwtKey = NewJWTKey(1, 0)
    /\ db = PutJWTKey({}, NewJWTKey(1, 0), 0, FALSE).records
    /\ readers = {}
    /\ writer = NoReq
    /\ pc = [r \in Reqs |-> "idle"]
    /\ newKey = [r \in Reqs |-> NoNewKey]
    /\ status = [r \in Reqs |-> 0]
    /\ signedWith = [r \in Reqs |-> 0]
    /\ nextKid = 2
    /\ seen = [r \in Reqs |-> 0]
    /\ rotations = <<>>
    /\ tokens = [r \in Reqs |-> NoIssued]
    /\ InitResolve
    /\ tunnel = NewTunnel(CHOOSE req \in TunnelRequests : TRUE)
    /\ wire = NewWire
    /\ IdleService

InitSpecAuthority ==
    /\ InitAuthority
    /\ now = 0
    /\ InitGate
    /\ InitResolve
    /\ tunnel = NewTunnel(CHOOSE req \in TunnelRequests : TRUE)
    /\ wire = NewWire
    /\ IdleService

\* The state in which nothing has reached the control server's /token yet.
IdleAuthority ==
    /\ jwtKey = NewJWTKey(1, 0)
    /\ db = PutJWTKey({}, NewJWTKey(1, 0), 0, FALSE).records
    /\ readers = {}
    /\ writer = NoReq
    /\ pc = [r \in Reqs |-> "idle"]
    /\ newKey = [r \in Reqs |-> NoNewKey]
    /\ status = [r \in Reqs |-> 0]
    /\ signedWith = [r \in Reqs |-> 0]
    /\ nextKid = 2
    /\ seen = [r \in Reqs |-> 0]
    /\ rotations = <<>>
    /\ tokens = [r \in Reqs |-> NoIssued]

InitSpecResolve ==
    /\ InitGate
    /\ InitResolve
    /\ now = 0
    /\ IdleAuthority
    /\ tunnel = NewTunnel(CHOOSE req \in TunnelRequests : TRUE)
    /\ wire = NewWire
    /\ IdleService

InitSpecTunnel ==
    /\ InitTunnel
    /\ InitGate
    /\ InitResolve
    /\ now = 0
    /\ IdleAuthority
    /\ IdleService

\* The state in which no request has reached the proxy or GET /token.
IdleProxy ==
    /\ InitGate
    /\ InitResolve
    /\ now = 0
    /\ IdleAuthority
    /\ tunnel = NewTunnel(CHOOSE req \in TunnelRequests : TRUE)
    /\ wire = NewWire

InitSpecIssue ==
    /\ InitIssue
    /\ InitFleet
    /\ InitAdmin
    /\ IdleRegistry
    /\ IdleClients
    /\ IdleProxy

InitSpecFleet ==
    /\ InitFleet
    /\ issue = IdleIssue
    /\ InitAdmin
    /\ IdleRegistry
    /\ IdleClients
    /\ IdleProxy

InitSpecAdmin ==
    /\ InitAdmin
    /\ issue = IdleIssue
    /\ InitFleet
    /\ IdleRegistry
    /\ IdleClients
    /\ IdleProxy

InitSpecRegistry ==
    /\ InitRegistry
    /\ IdleClients
    /\ issue = IdleIssue
    /\ InitFleet
    /\ InitAdmin
    /\ IdleProxy

InitSpecWired ==
    /\ InitWired
    /\ InitGate
    /\ InitResolve
    /\ now = 0
    /\ IdleAuthority
    /\ IdleService

\* cmd/proxy's main starts against a control server nobody has
\* registered with.
InitSpecClient ==
    /\ issue = IdleIssue
    /\ InitFleet
    /\ InitAdmin
    /\ IdleRegistry
    /\ IdleClients
    /\ IdleProxy

\* NewClient: the client's RevocationService is empty.
InitSpecFetch ==
    /\ IdleService
    /\ IdleProxy

SpecGate == InitSpecGate /\ [][NextGate]_vars

SpecAuthority == InitSpecAuthority /\ [][NextAuthority]_vars

SpecResolve == InitSpecResolve /\ [][NextResolve]_vars

SpecTunnel == InitSpecTunnel /\ [][NextTunnel]_vars

SpecIssue == InitSpecIssue /\ [][NextIssue]_vars

SpecFleet == InitSpecFleet /\ [][NextFleet]_vars

SpecAdmin == InitSpecAdmin /\ [][NextAdmin]_vars

SpecRegistry == InitSpecRegistry /\ [][NextRegistry]_vars

SpecWired == InitSpecWired /\ [][NextWired]_vars

SpecClient == InitSpecClient /\ [][NextClient]_vars

SpecFetch == InitSpecFetch /\ [][NextFetch]_vars

\* The proxy's goroutines keep running: a step the proxy can take by itself
\* is taken.  Nothing is assumed of the client, the target or a canceller.
SpecTunnelFair == SpecTunnel /\ WF_vars(TunnelSteps)

----------------------------------------------------------------------------
(* Properties of the gates                                                 *)

\* The answer on hand is a gate's answer to a request that presents the
\* request's token as "Bearer <token>".
Presented(gates) ==
    /\ resp.op = "request"
    /\ resp.gate \in gates
    /\ resp.req.header = <<"Bearer", " ", "T">>

Rejected == resp.out.status = 401 /\ ~resp.out.handlerCalled
LetThrough == resp.out.handlerCalled /\ resp.out.ctxToken /\ resp.out.status # 401

TokJti  == resp.req.tok.claims["jti"]
TokExp  == resp.req.tok.claims["exp"]
TokPerm == resp.req.tok.claims[PERMISSION_CONNECT_TCP]

\* The gates on which the insecure bypass is switched on / off.
InsecureGates == {"jwtInsecure", "proxyInsecure"}
SecureGates   == {"jwt", "multikey"}

\* C1: a token a gate has let through before its jti was revoked is rejected
\* with 401, and the wrapped handler not called, on every request made after
\* Revoke was called with its jti.
C1_RevokedTokenRejected ==
    (/\ Presented(TokenGates)
     /\ TokJti.type = "string"
     /\ <<resp.gate, TokJti.str>> \in accepted
     /\ TokJti.str \in revokeCalled)
    => Rejected

C3_NoJtiRejected ==
    (Presented(TokenGates) /\ TokJti.type # "string") => Rejected

C5_InsecureStillAuthorizes ==
    (/\ Presented(InsecureGates)
     /\ resp.req.tok.alg = "none"
     /\ \/ TokJti.type # "string"
        \/ TokJti.type = "string" /\ TokJti.str \in revokedTokens
        \/ TokPerm \notin {BoolV(TRUE), StrV("true")})
    => Rejected

\* C6 as claimed: a token whose algorithm is not an RSA one is rejected by
\* every gate.
C6_NonRSAAlwaysRejected ==
    (Presented(TokenGates) /\ resp.req.tok.alg \notin RSAAlgs) => Rejected

\* C6: a gate on which the insecure bypass is not switched on rejects every
\* token whose algorithm is not an RSA one, also when it has the public key
\* of the token's key id at hand.
C6_NonRSARejectedWhenSecure ==
    (Presented(SecureGates) /\ resp.req.tok.alg \notin RSAAlgs) => Rejected

\* An HS256 token keyed with the very public key the gate had cached under
\* the token's key id.
C6_Witness ==
    /\ Presented({"multikey"})
    /\ resp.req.tok.alg = "HS256"
    /\ resp.req.tok.kid = StrV("1")
    /\ keyCache["1"] = resp.req.tok.sig
    /\ TokJti.type = "string" /\ TokPerm = BoolV(TRUE)
    /\ Rejected

\* C7: a token signed with the private key of one key, verified against the
\* public key of another key, is rejected with 401.
C7_WrongKeyRejected ==
    (/\ Presented(TokenGates)
     /\ resp.req.tok.alg \in RSAAlgs
     /\ resp.req.tok.sig \in Keys
     /\ resp.out.key \in Keys
     /\ resp.req.tok.sig # resp.out.key)
    => Rejected

\* A token signed with key "1" that names key id "2", which the gate resolved.
C7_Witness ==
    /\ Presented({"multikey"})
    /\ resp.req.tok.alg = "RS256"
    /\ resp.req.tok.sig = KeyOf("1")
    /\ resp.req.tok.kid = StrV("2")
    /\ resp.out.key = KeyOf("2")
    /\ TokJti.type = "string" /\ TokPerm = BoolV(TRUE)
    /\ Rejected

\* C8: a token with a valid signature under the key the gate resolved, an exp
\* in the future, a jti that is not revoked and connect-tcp true is let
\* through: the wrapped handler is called with the token in the context.
C8_ValidTokenAccepted ==
    (/\ Presented(TokenGates)
     /\ resp.req.tok.alg \in RSAAlgs
     /\ resp.out.key \in Keys
     /\ resp.req.tok.sig = resp.out.key
     /\ TokExp.type = "float64" /\ now < TokExp.num
     /\ TokJti.type = "string" /\ TokJti.str \notin revokedTokens
     /\ TokPerm = BoolV(TRUE))
    => LetThrough

C8_Witness ==
    /\ Presented({"multikey"})
    /\ resp.req.tok.alg = "RS256"
    /\ resp.req.tok.kid = StrV("2")
    /\ resp.req.tok.sig = KeyOf("2")
    /\ resp.out.key = KeyOf("2")
    /\ TokExp.type = "float64" /\ now < TokExp.num
    /\ TokJti = StrV("j1") /\ "j1" \notin revokedTokens /\ "j2" \in revokedTokens
    /\ TokPerm = BoolV(TRUE)
    /\ LetThrough

\* The steps of the validation pipeline, for the answer on hand: the header
\* carries "Bearer <token>", the token parses, its signature is an RSA
\* signature that verifies under the resolved key and it has not expired
\* (or the insecure bypass is on and the token is unsigned), it has a string
\* jti, the jti is not revoked, and connect-tcp is granted.
EveryStepPassed ==
    /\ resp.req.header = <<"Bearer", " ", "T">>
    /\ \/ resp.gate \in InsecureGates /\ resp.req.tok.alg = "none"
       \/ /\ resp.req.tok.alg \in RSAAlgs
          /\ resp.out.key \in Keys
          /\ resp.req.tok.sig = resp.out.key
          /\ TokExp.type = "absent" \/ (TokExp.type = "float64" /\ now < TokExp.num)
    /\ TokJti.type = "string"
    /\ TokJti.str \notin revokedTokens
    /\ TokPerm \in {BoolV(TRUE), StrV("true")}

\* C9: a request that fails a step of the pipeline is answered 401 without
\* the wrapped handler being called; the wrapped handler is called only for
\* a request that passed every step.
C9_FailureMeans401 ==
    (resp.op = "request" /\ resp.gate \in TokenGates) =>
        /\ ~EveryStepPassed => Rejected
        /\ resp.out.handlerCalled => EveryStepPassed

----------------------------------------------------------------------------
(* Properties of the control server's signing key                          *)

\* The requests that found key kid expired at their first look.
SawExpired(kid) == {r \in Reqs : seen[r] = kid}

\* The rotations that replaced key kid.
RotationsOf(kid) == {i \in DOMAIN rotations : rotations[i].from = kid}

\* The key ids NewJWTKey has handed out so far.
KidsCreated == 1..(nextKid - 1)

\* C10: however many requests find the current key expired at the same
\* time, the key is replaced at most once, and exactly once when one of
\* them is answered 200: a key is only ever replaced when it is expired,
\* the new key is in the store when it becomes the current key, every
\* request that found the key expired and is answered 200 has signed with
\* the key that replaced it, and, unless a request failed with 500, no key
\* is generated that does not become the current key.
C10_SingleRotation ==
    /\ \A kid \in KidsCreated : Cardinality(RotationsOf(kid)) <= 1
    /\ \A i \in DOMAIN rotations :
           /\ rotations[i].fromExpiresAt < rotations[i].at
           /\ rotations[i].persisted
           /\ rotations[i].to # rotations[i].from
    /\ rotations # <<>> => jwtKey.kid = rotations[Len(rotations)].to
    /\ \A r \in Reqs :
           (seen[r] # 0 /\ status[r] = 200) =>
               /\ Cardinality(RotationsOf(seen[r])) = 1
               /\ signedWith[r] # seen[r]
               /\ \E i \in DOMAIN rotations : rotations[i].to = signedWith[r]
    /\ (\A r \in Reqs : status[r] # 500) =>
           nextKid - 2 = Len(rotations) + Cardinality({r \in Reqs : pc[r] = "store"})

\* Every request found the first key expired, one of them replaced it, and
\* all of them have been answered 200 with a token signed by the new key.
C10_Witness ==
    /\ SawExpired(1) = Reqs
    /\ \A r \in Reqs : pc[r] = "done" /\ status[r] = 200 /\ signedWith[r] = jwtKey.kid
    /\ Len(rotations) = 1
    /\ nextKid = 3
    /\ Cardinality({r \in Reqs : newKey[r] # NoNewKey}) = 1

----------------------------------------------------------------------------
(* Properties of the key cache                                             *)

\* The callers that wanted key id k and whose own call of the provider
\* returned it.
FetchedIt(k) ==
    {r \in Resolvers : rwant[r] = k /\ rres[r].fetched = "ok" /\ k \in rres[r].pub}

\* C11: a getKey whose call of the provider fails returns the error and the
\* nil key, leaves the key cache exactly as it was and touches no other
\* caller's result; nothing of the failure stays behind: a caller whose own
\* call of the provider succeeds and returns its key id gets that key, and a
\* key served from the cache is always the key published under the key id.
C11_FetchFailureNotCached ==
    [][/\ \A r \in Resolvers :
              (rpc[r] = "fetch" /\ rpc'[r] = "done" /\ rres'[r].fetched = "failed") =>
                  /\ rres'[r].err = "FetchFailed"
                  /\ rres'[r].key = NoKey
                  /\ keyCache' = keyCache
                  /\ \A q \in Resolvers \ {r} : rres'[q] = rres[q] /\ rpc'[q] = rpc[q]
       /\ \A r \in Resolvers :
              (rpc'[r] = "done" /\ rres'[r].fetched = "ok" /\ rwant'[r] \in rres'[r].pub) =>
                  rres'[r].err = "" /\ rres'[r].key = KeyOf(rwant'[r])
       /\ \A r \in Resolvers :
              (rpc'[r] = "done" /\ rres'[r].how \in {"cache", "recheck"}) =>
                  rres'[r].err = "" /\ rres'[r].key = KeyOf(rwant'[r])
      ]_vars

\* A caller's fetch for key id "1" failed, and a later caller's fetch for the
\* same key id was made and returned the key.
C11_Witness ==
    \E r1, r2 \in Resolvers :
        /\ rwant[r1] = "1" /\ rwant[r2] = "1"
        /\ rres[r1].fetched = "failed" /\ rres[r1].err = "FetchFailed"
        /\ rres[r2].fetched = "ok" /\ rres[r2].at > rres[r1].at
        /\ rres[r2].err = "" /\ rres[r2].key = KeyOf("1")

\* C12: of the callers that want the same key id, at most one ever gets it
\* from a call of the provider; a caller that finds it at the second look
\* owes it to another caller's fetch; and when every caller wanted the same
\* key id and got its key, the provider was called exactly once.
C12_SingleFetch ==
    /\ \A k \in KeyIDs : Cardinality(FetchedIt(k)) <= 1
    /\ \A r \in Resolvers :
           rres[r].how = "recheck" =>
               \E q \in Resolvers \ {r} :
                   rres[q].fetched = "ok" /\ rwant[r] \in rres[q].pub
    /\ \A k \in KeyIDs :
           (\A r \in Resolvers : rpc[r] = "done" /\ rwant[r] = k /\ rres[r].err = "")
               => fetches = 1

\* Every caller wanted key id "1" while it was not cached; one fetched it
\* and the others found it at the second look.
C12_Witness ==
    /\ \A r \in Resolvers : rpc[r] = "done" /\ rwant[r] = "1" /\ rres[r].key = KeyOf("1")
    /\ fetches = 1
    /\ Cardinality(FetchedIt("1")) = 1
    /\ Cardinality({r \in Resolvers : rres[r].how = "recheck"}) >= 2

\* C13: when the provider has been asked, has answered, and does not publish
\* the token's key id, getKey fails with KeyNotFound and the gate answers
\* 401 without calling the wrapped handler.
C13_UnknownKidRejected ==
    (/\ Presented({"multikey"})
     /\ resp.fetched = "ok"
     /\ ConvertKid(resp.req.tok.kid).keyID \notin published)
    => (resp.getKeyErr = "KeyNotFound" /\ Rejected)

C13_Witness ==
    /\ Presented({"multikey"})
    /\ resp.req.tok.kid = StrV("3")
    /\ resp.req.tok.alg = "RS256"
    /\ TokPerm = BoolV(TRUE)
    /\ resp.fetched = "ok"
    /\ keyCache["1"] = KeyOf("1")
    /\ resp.getKeyErr = "KeyNotFound"
    /\ Rejected

----------------------------------------------------------------------------
(* Properties of the CONNECT tunnel                                        *)

\* s is an initial part of t.
IsPrefix(s, t) == Len(s) <= Len(t) /\ SubSeq(t, 1, Len(s)) = s

\* The dial has succeeded, and the client connection has been taken over.
Dialled  == tunnel.targetConn # "nil"
Hijacked == tunnel.clientConn # "server"

\* C14: whenever the handler has returned, by whichever way, the target
\* connection, if the dial opened one, is closed, and the client
\* connection, if it was taken over, is closed.
C14_SocketsClosedOnReturn ==
    tunnel.pc = "returned" =>
        /\ tunnel.targetConn \in {"nil", "closed"}
        /\ tunnel.clientConn \in {"server", "closed"}
        /\ tunnel.dials > 0 /\ ~tunnel.dialErr => tunnel.targetConn = "closed"
        /\ tunnel.c2t # "notStarted" => tunnel.clientConn = "closed"

\* A tunnel that was relaying has ended, both copies are over, and both
\* connections are closed.
C14_Witness ==
    /\ tunnel.pc = "returned"
    /\ tunnel.c2t = "done" /\ tunnel.t2c = "done"
    /\ tunnel.targetConn = "closed" /\ tunnel.clientConn = "closed"
    /\ wire.targetRecv # <<>>

\* C15: in a tunnel that is relaying, once the copy from the client to the
\* target has ended, or the request's context has been cancelled, the
\* handler returns and both copies end, whatever the endpoints do or do
\* not do.
C15_RelayEndsTogether ==
    (tunnel.pc = "relay" /\ (tunnel.c2t = "done" \/ tunnel.cancelled))
        ~> (tunnel.pc = "returned" /\ tunnel.c2t = "done" /\ tunnel.t2c = "done")

\* C16: when the dial fails the handler returns at once: the client gets
\* 502 and nothing else was written, the client connection has not been
\* taken over, no copy was started, and the dial was made once.
C16_DialFailure502 ==
    tunnel.dialErr =>
        /\ tunnel.pc = "returned"
        /\ tunnel.status = 502 /\ tunnel.wrote = <<502>>
        /\ ~Hijacked /\ ~Dialled
        /\ tunnel.c2t = "notStarted" /\ tunnel.t2c = "notStarted"
        /\ tunnel.dials = 1

\* The dial to a target that is up timed out.
C16_Witness ==
    /\ tunnel.dialErr
    /\ tunnel.host = "up"
    /\ tunnel.req.hijacker = "ok"
    /\ tunnel.status = 502
    /\ wire.clientSent # <<>>

\* C17: a CONNECT request with an empty target host is never dialled and
\* is answered 400.
C17_EmptyHost400 ==
    (tunnel.req.Method = "CONNECT" /\ TargetHost(tunnel.req) = "") =>
        /\ tunnel.dials = 0
        /\ tunnel.pc = "returned" => tunnel.status = 400

\* C18: a request that is not a CONNECT is never dialled for, its
\* connection is never taken over, and it is answered 405.
C18_NotConnect405 ==
    tunnel.req.Method # "CONNECT" =>
        /\ tunnel.dials = 0 /\ ~Dialled /\ ~Hijacked
        /\ tunnel.c2t = "notStarted" /\ tunnel.t2c = "notStarted"
        /\ tunnel.pc = "returned" => (tunnel.status = 405 /\ tunnel.wrote = <<405>>)

\* A GET for a target that is up, through Proxy.ServeHTTP.
C18_Witness ==
    /\ tunnel.req.Method = "GET"
    /\ tunnel.req.via = "Proxy.ServeHTTP"
    /\ tunnel.req.Host = "up"
    /\ tunnel.pc = "returned"
    /\ tunnel.status = 405

\* C19: when the dial has succeeded and the ResponseWriter is no Hijacker,
\* the client receives status 500 and no copy is started.
C19_NoHijacker500 ==
    (tunnel.req.hijacker = "unsupported" /\ Dialled /\ tunnel.pc = "returned") =>
        /\ tunnel.status = 500
        /\ tunnel.c2t = "notStarted" /\ tunnel.t2c = "notStarted"

\* C20: what the target has been delivered is, byte for byte, an initial
\* part of what the client has sent after its CONNECT request, and what
\* the client has been delivered an initial part of what the target sent.
C20_RelayByteForByte ==
    /\ IsPrefix(wire.targetRecv, wire.clientSent)
    /\ IsPrefix(wire.clientRecv, wire.targetSent)


----------------------------------------------------------------------------
(* Properties of the tokens the control server issues                      *)

\* The tokens GET /token answers with at time 0, as a gate reads them: each
\* signed by one of the keys the authority creates, with the jti rand.Int
\* yielded.
IssuedByAuthority ==
    {AsPresented(SignWithClaims(NewJWTKey(kid, 0), ControlServerIssuer,
                                TokenLifetime,
                                GetPermissionStrings(<<PERMISSION_CONNECT_TCP>>),
                                0, jti, FALSE).token) :
        kid \in 1..MaxKeys, jti \in IssuedJtis}

\* C21: a token GET /token has issued is let through by a gate that asks for
\* connect-tcp and takes its keys from the control server (the JWTValidator
\* built with the control server's key, for a token signed with that key;
\* the MultiKeyJWTValidator, for a token whose key id is published and whose
\* fetch, if one is made, succeeds), as long as the token has not expired.
\* A jti that is a number is in no revocation set.
C21_IssuedTokenAccepted ==
    (/\ Presented(SecureGates)
     /\ resp.req.tok \in IssuedByAuthority
     /\ now < TokExp.num
     /\ resp.gate = "jwt" => resp.req.tok.sig = JWTGate.PublicKey
     /\ resp.gate = "multikey" =>
            /\ ConvertKid(resp.req.tok.kid).keyID \in published
            /\ resp.fetched # "failed")
    => LetThrough

----------------------------------------------------------------------------
(* Properties of the fleet directory                                       *)

\* The members a listed server may have, and the names a revocation token
\* could go by.
PublicSchema == {"proxyUrl", "latitude", "longitude", "city", "country",
                 "supportsConnectTcp", "supportsConnectUdp", "supportsConnectIp"}
TokenSpellings == {"revocationToken", "RevocationToken", "revocation_token",
                   "revocationtoken", "-"}

\* The store with the revocation token of every registered server replaced
\* by the one f names.
WithTokens(store, f) ==
    [u \in DOMAIN store |->
        IF store[u] = NoHash THEN NoHash
        ELSE [store[u] EXCEPT !.revocationToken = f[u]]]

\* C22: every server of a GET /servers answer has members of the public
\* schema only, and none by a name of the revocation token; and the
\* listing is the same whatever the revocation tokens of the registered
\* servers are: the answer given is the listing of the store with every
\* token blanked, and so is the listing of the store under any other
\* assignment of tokens.
C22_ListingHidesTokens ==
    /\ (fleetResp.op = "list" /\ fleetResp.status = 200) =>
           /\ \A o \in fleetResp.list :
                  DOMAIN o \subseteq PublicSchema /\ DOMAIN o \cap TokenSpellings = {}
           /\ fleetResp.list = Listing(WithTokens(servers, [u \in ProxyURLs |-> ""]))
    /\ \A f \in [ProxyURLs -> RevocationTokens \cup {""}] :
           Listing(WithTokens(servers, f)) = Listing(servers)

\* Two servers are registered, each with its own token, and listed.
C22_Witness ==
    /\ fleetResp.op = "list" /\ fleetResp.status = 200
    /\ Cardinality(fleetResp.list) = 2
    /\ \A u \in ProxyURLs : servers[u].revocationToken \in RevocationTokens
    /\ servers["u1"].revocationToken # servers["u2"].revocationToken
    /\ \A o \in fleetResp.list : DOMAIN o = PublicSchema

\* The proxyUrls listed for a store.
Listed(store) == {o["proxyUrl"] : o \in Listing(store)}

\* C26: a registration that succeeds returns a fresh token and leaves its
\* server in the listing, the other servers as they were; a DELETE that
\* carries the secret and the token the registration of a listed server
\* returned, the store working, answers 200 and takes exactly that server
\* out of the store; a DELETE with a token that is no listed server's
\* fails and leaves the store, and so the listing, as it was.
C26_RegisterListDelete ==
    [][/\ (fleetResp'.op = "register" /\ fleetResp'.status = 200) =>
              /\ fleetResp'.token \notin {granted[u] : u \in ProxyURLs}
              /\ fleetResp'.token \in RevocationTokens
              /\ granted'[fleetResp'.url] = fleetResp'.token
              /\ fleetResp'.url \in Listed(servers')
              /\ \A u \in ProxyURLs \ {fleetResp'.url} : servers'[u] = servers[u]
       /\ (fleetResp.op = "none" /\ fleetResp'.op = "delete") =>
              LET holders == {u \in Listed(servers) : granted[u] = fleetResp'.token} IN
              /\ (holders # {} /\ fleetResp'.authorized /\ ~fleetResp'.failed) =>
                     /\ fleetResp'.status = 200
                     /\ \E u \in holders :
                            /\ servers' = [servers EXCEPT ![u] = NoHash]
                            /\ Listed(servers') = Listed(servers) \ {u}
              /\ holders = {} =>
                     /\ fleetResp'.status # 200
                     /\ servers' = servers
                     /\ Listing(servers') = Listing(servers)
              /\ fleetResp'.status # 200 => servers' = servers
      ]_vars

\* Two servers were registered, and the DELETE with the token of "u1" has
\* taken "u1" out and left "u2".
C26_Witness ==
    /\ fleetResp.op = "delete" /\ fleetResp.status = 200
    /\ fleetResp.url = "u1"
    /\ Listed(servers) = {"u2"}
    /\ granted["u2"] \in RevocationTokens
    /\ fleetResp.token # granted["u2"]

----------------------------------------------------------------------------
(* Properties of the control server's tokens and rotations                 *)

\* The requests that were answered with a token that has not expired yet.
Answered == {r \in Reqs : status[r] = 200 /\ tokens[r] # NoIssued}

\* C23: as long as a token GET /token has issued is not expired, the key id
\* in its header is among the keys the control server publishes from its
\* store, whether or not the key has been rotated out since.
C23_SigningKeyRetrievable ==
    \A r \in Answered :
        now < tokens[r].token.claims["exp"].num =>
            ConvertKid(tokens[r].token.kid).keyID \in GetAllActiveJWTKeys(db)

\* C24: a request whose rotation fails, at the key generation or at the
\* store, is answered 500 and gets no token, leaves the current key and the
\* record of rotations as they were and gives the write lock back; and
\* whatever failed before, a request that finds the current key expired
\* goes for the write lock, and with the lock and the key still expired it
\* goes on to rotate.
C24_RotationFailureRetried ==
    [][/\ \A r \in Reqs :
              (pc[r] \in {"newkey", "store"} /\ pc'[r] = "done") =>
                  /\ status'[r] = 500
                  /\ tokens'[r] = NoIssued /\ signedWith'[r] = 0
                  /\ jwtKey' = jwtKey
                  /\ rotations' = rotations
                  /\ writer = r /\ writer' = NoReq
       /\ \A r \in Reqs :
              (pc[r] = "check" /\ pc'[r] # "check") =>
                  (pc'[r] = "lock" <=> IsExpired(jwtKey, now))
       /\ \A r \in Reqs :
              (pc[r] = "lock" /\ pc'[r] # "lock") =>
                  (pc'[r] = "newkey" <=> IsExpired(jwtKey, now))
      ]_vars

\* The store refused the key one request had made for the expired key, the
\* request was answered 500, and a later request rotated the same expired
\* key and was answered with a token.
C24_Witness ==
    \E r1, r2 \in Reqs :
        /\ r1 # r2
        /\ status[r1] = 500 /\ newKey[r1] # NoNewKey /\ seen[r1] = 1
        /\ \A i \in DOMAIN rotations : rotations[i].by # r1
        /\ \E i \in DOMAIN rotations :
               /\ rotations[i].by = r2
               /\ rotations[i].from = 1
               /\ rotations[i].to > newKey[r1].kid
        /\ status[r2] = 200 /\ signedWith[r2] = newKey[r2].kid
        /\ jwtKey = newKey[r2]

----------------------------------------------------------------------------
(* Properties of the admin API                                             *)

\* The request's Authorization header is "Bearer <admin token>".
CarriesSecret(req) == req.header = <<"Bearer", " ">> \o AdminToken

\* The request names a jti: its body decodes and the jti is not empty.
NamesJti(req) == ~req.body.malformed /\ req.body.jti # ""

----------------------------------------------------------------------------
(* Properties of the gates' header step                                    *)

\* The header has the form "<scheme> <token>" for the configured scheme:
\* the scheme word, one space, and credentials.
WellFormedHeader(h) ==
    Len(h) = 3 /\ <<h[1]>> = DefaultAuthScheme /\ h[2] = " "

\* C27: a gate answers a request without the header with NoAuthHeader, and
\* a request whose header is not "<scheme> <token>" with InvalidScheme; both
\* with 401 and without calling the wrapped handler, and without a key
\* lookup (no fetch, no key resolved, the key cache as it was) or a look at
\* the token (the answer is the same whatever token came along).
C27_HeaderErrors ==
    [][(resp.op = "none" /\ resp'.op = "request" /\ resp'.gate \in TokenGates
           /\ ~WellFormedHeader(resp'.req.header)) =>
          /\ resp'.out.err = IF resp'.req.header = <<>> THEN "NoAuthHeader"
                             ELSE "InvalidScheme"
          /\ resp'.out.status = 401 /\ ~resp'.out.handlerCalled
          /\ resp'.fetched = "no" /\ resp'.getKeyErr = "" /\ resp'.out.key = NoKey
          /\ keyCache' = keyCache
          /\ \A t \in {NoToken, CHOOSE x \in IssuedByAuthority : TRUE} :
                 LET req == [header |-> resp'.req.header, tok |-> t] IN
                 /\ JWTValidatorMiddleware(JWTGate, req).err = resp'.out.err
                 /\ JWTValidatorMiddleware(JWTInsecureGate, req).err = resp'.out.err
                 /\ MultiKeyMiddleware(MultiKeyGate, req, FALSE).out.err = resp'.out.err
      ]_vars

\* The MultiKeyJWTValidator has answered a "Basic" header with
\* InvalidScheme while the key cache is still empty.
C27_Witness ==
    /\ resp.op = "request" /\ resp.gate = "multikey"
    /\ resp.req.header = <<"Basic", " ", "T">>
    /\ resp.out.err = "InvalidScheme" /\ resp.out.status = 401
    /\ resp.fetched = "no"
    /\ \A k \in KeyIDs : keyCache[k] = NoKey

----------------------------------------------------------------------------
(* Properties of SignWithClaims                                            *)

\* The capabilities a permission list names.
Named(permissions) == {permissions[i] : i \in DOMAIN permissions}

\* C28: the token SignWithClaims returns carries the issuer it was given as
\* iss, the time of the call plus validDuration as exp, a jti, the key id of
\* the signing key as kid claim and as kid header field, true for every
\* capability of the list and no other capability claim; it is an RS256
\* token whose signature verifies under the public key of the signing key
\* and under no other.
C28_IssuedTokenContents ==
    (issue.done /\ ~issue.err) =>
        LET claims == issue.token.claims IN
        /\ claims["iss"] = StrV(issue.issuer)
        /\ claims["exp"] = NumV(issue.at + issue.validDuration)
        /\ claims["jti"] = NumV(issue.jti) /\ issue.jti \in IssuedJtis
        /\ claims["kid"] = StrV(Sprintf(issue.key.kid))
        /\ issue.token.kid = StrV(Sprintf(issue.key.kid))
        /\ \A p \in Permissions :
               claims[p] = IF p \in Named(issue.permissions) THEN BoolV(TRUE) ELSE Absent
        /\ issue.token.alg = "RS256"
        /\ \A key \in Keys :
               VerifySignature(issue.token, key) <=> key = PublicKeyOf(issue.key)

\* Signed at time 1 with key 2, for the longer validity and two
\* capabilities.
C28_Witness ==
    /\ issue.done /\ ~issue.err
    /\ issue.at = 1
    /\ issue.key.kid = 2
    /\ issue.validDuration = TokenLifetime + KeyLifetime
    /\ issue.permissions = <<PERMISSION_CONNECT_TCP, PERMISSION_CONNECT_IP>>
    /\ issue.token.claims["exp"] = NumV(1 + TokenLifetime + KeyLifetime)
    /\ issue.token.claims[PERMISSION_CONNECT_IP] = BoolV(TRUE)
    /\ issue.token.claims[PERMISSION_CONNECT_UDP] = Absent

----------------------------------------------------------------------------
(* Properties of the key cache after a refresh                             *)

\* C29: when a caller's fetch has succeeded, the key cache holds the keys
\* the provider returned and no other: every key id returned is cached,
\* and a key id that is not among them is not cached any more.
C29_CacheIsFetchedSet ==
    [][\A r \in Resolvers :
           (rpc[r] = "fetch" /\ rpc'[r] = "done" /\ rres'[r].fetched = "ok") =>
               \A k \in KeyIDs :
                   CacheLookup(keyCache', k).exists <=> k \in rres'[r].pub
      ]_vars

----------------------------------------------------------------------------
(* Properties of the tunnel's status line                                  *)

\* The handler has called w.WriteHeader(200).
OkWritten(t) == \E i \in DOMAIN t.wrote : t.wrote[i] = 200

\* C30: the handler writes the 200 in a step of its own, when the dial has
\* succeeded and while the client connection is still the server's; it
\* takes the connection over only when the 200 has been written, and the
\* 200 is then the status the client got.  So there is no 200 without a
\* successful dial and no takeover without a 200 before it.
C30_OkAfterDialBeforeTakeover ==
    [][/\ (~OkWritten(tunnel) /\ OkWritten(tunnel')) =>
              /\ Dialled /\ ~tunnel.dialErr /\ tunnel.targetConn = "open"
              /\ ~Hijacked /\ tunnel'.clientConn = "server"
       /\ (tunnel.clientConn = "server" /\ tunnel'.clientConn # "server") =>
              /\ OkWritten(tunnel) /\ tunnel.status = 200
              /\ Dialled
       /\ OkWritten(tunnel) => OkWritten(tunnel')
       /\ tunnel.dials = 0 => (~OkWritten(tunnel) /\ ~Hijacked)
      ]_vars

\* The dial succeeded, the 200 was written, and the connection has been
\* taken over.
C30_Witness ==
    /\ tunnel.pc = "relay"
    /\ tunnel.dials = 1 /\ ~tunnel.dialErr /\ Dialled
    /\ tunnel.wrote = <<200>> /\ tunnel.status = 200
    /\ Hijacked

----------------------------------------------------------------------------
(* Properties of concurrent key lookups                                    *)

\* C31: a caller whose key id is in the key cache can always take its
\* first look at the cache and return: whatever fetch another caller has
\* in flight (it holds keyCacheMutex's write lock until PublicKeys() has
\* returned), the lookup of a cached key id is not held off.
C31_CachedLookupNeverWaits ==
    \A r \in Resolvers, k \in KeyIDs :
        (rpc[r] = "idle" /\ CacheLookup(keyCache, k).exists) =>
            ENABLED ResolveCheck(r, k)

----------------------------------------------------------------------------
(* Properties of the order of the gates' steps                             *)

\* The earliest step, in the order header, parsing, key id, key resolution,
\* signature and expiry, jti presence, revocation, capabilities, that the
\* request of the answer r fails at the gate g; "none" when it passes them
\* all.  The key id and key resolution steps are the MultiKeyJWTValidator's
\* (a JWTValidator has one key); the signature step does not apply to an
\* unsigned token where the insecure bypass is on.
EarliestFailure(g, r) ==
    LET ex  == ExtractToken(r.req.header, DefaultAuthScheme)
        tok == r.req.tok
        key == r.out.key
    IN
    IF ex.err # "" THEN "header"
    ELSE IF ~ParseUnverifiedOk(ex.tokenStr) THEN "parsing"
    ELSE IF g = "multikey" /\ ~(tok.kid.type # "absent" /\ ConvertKid(tok.kid).ok)
    THEN "key id"
    ELSE IF g = "multikey" /\ r.getKeyErr # "" THEN "key resolution"
    ELSE IF ~(g = "jwtInsecure" /\ tok.alg = "none")
            /\ ~(/\ tok.alg \in RSAAlgs /\ key \in Keys /\ tok.sig = key
                 /\ (tok.claims["exp"].type = "float64" => now < tok.claims["exp"].num)
                 /\ tok.claims["exp"].type \in {"absent", "float64"})
    THEN "signature"
    ELSE IF tok.claims["jti"].type # "string" THEN "jti"
    ELSE IF tok.claims["jti"].str \in revokedTokens THEN "revocation"
    ELSE IF tok.claims[PERMISSION_CONNECT_TCP] \notin {BoolV(TRUE), StrV("true")}
    THEN "capabilities"
    ELSE "none"

\* The errors a step reports.
ErrorsOf(step) ==
    CASE step = "header"         -> {"NoAuthHeader", "InvalidScheme"}
      [] step = "parsing"        -> {"InvalidToken"}
      [] step = "key id"         -> {"MissingKid", "InvalidKid"}
      [] step = "key resolution" -> {"KeyNotFound"}
      [] step = "signature"      -> {"InvalidToken"}
      [] step = "jti"            -> {"MissingJti"}
      [] step = "revocation"     -> {"TokenRevoked"}
      [] step = "capabilities"   -> {"MissingPermission"}
      [] OTHER                   -> {""}

\* C32: a gate reports the failure of the earliest step its request fails,
\* and that one only: a revoked token that also lacks connect-tcp is
\* reported as revoked, and a request that fails before key resolution
\* causes no key fetch.
C32_EarliestFailureReported ==
    (resp.op = "request" /\ resp.gate \in TokenGates) =>
        /\ resp.out.err \in ErrorsOf(EarliestFailure(resp.gate, resp))
        /\ EarliestFailure(resp.gate, resp) \in {"header", "parsing", "key id"} =>
               resp.fetched = "no"

----------------------------------------------------------------------------
(* Properties of the signing key's expiry                                  *)

\* C33: the current key is usable exactly while now < expiresAt.  A token
\* request that takes its look at the key at an instant with
\* now >= expiresAt, the instant now = expiresAt included, goes on to
\* rotate (it gives its read lock back and calls Lock(), and under the
\* write lock it makes the new key); with now < expiresAt it goes on to
\* sign.
C33_UsableIffBeforeExpiry ==
    [][\A r \in Reqs :
          /\ (pc[r] = "check" /\ pc'[r] # "check") =>
                 (pc'[r] = "lock" <=> now >= jwtKey.expiresAt)
          /\ (pc[r] = "lock" /\ pc'[r] # "lock") =>
                 (pc'[r] = "newkey" <=> now >= jwtKey.expiresAt)
      ]_vars

----------------------------------------------------------------------------
(* Properties of the revocation list                                       *)

\* The elements of a slice.
Elems(list) == {list[i] : i \in DOMAIN list}

\* C34: the slice GetRevokedList returns holds exactly the jtis revoked so
\* far, each once; it stays as it was returned whatever is revoked later;
\* and no Revoke is lost, however the callers interleave: every jti a
\* Revoke has returned for is in the set, so that after N distinct jtis a
\* list has length N.
C34_SnapshotIsTheSet ==
    [][/\ \A c \in Callers :
              /\ (call[c].pc = "copy" /\ call'[c].pc = "idle") =>
                     /\ Elems(call'[c].list) = returned
                     /\ Len(call'[c].list) = Cardinality(returned)
              /\ call'[c].list # call[c].list => call[c].pc = "copy"
       /\ returned' \subseteq revokedTokens'
       /\ revokedTokens' \subseteq revokeCalled'
       /\ revokedTokens \subseteq revokedTokens'
      ]_vars

\* Three distinct jtis have been revoked, the third while the two others
\* were waiting for the lock or had returned, and one caller holds a list
\* of the three while another still holds the list of one it was returned
\* earlier.
C34_Witness ==
    /\ returned = RevJtis
    /\ \E c, d \in Listers : Len(call[c].list) = 3 /\ Len(call[d].list) = 1

----------------------------------------------------------------------------
(* Properties of the key cache across a rotation                           *)

\* The request of the answer r presents a valid token signed by the
\* published key k and naming it: RS256, unexpired, with a jti that is not
\* revoked and with connect-tcp.
ValidUnder(r, k) ==
    /\ r.req.header = <<"Bearer", " ", "T">>
    /\ k \in published
    /\ r.req.tok.alg \in RSAAlgs
    /\ r.req.tok.kid = StrV(k)
    /\ r.req.tok.sig = KeyOf(k)
    /\ r.req.tok.claims["exp"].type = "float64" /\ now < r.req.tok.claims["exp"].num
    /\ r.req.tok.claims["jti"].type = "string"
    /\ r.req.tok.claims["jti"].str \notin revokedTokens
    /\ r.req.tok.claims[PERMISSION_CONNECT_TCP] = BoolV(TRUE)

\* C35: once a further key is published, the MultiKeyJWTValidator answers
\* the first valid token signed by it with one call of the provider, and
\* lets the token through when the provider answers; the key is then
\* cached, nothing leaves the cache, and every later valid token signed by
\* a cached key is let through without a call of the provider.
C35_OneFetchPerRotation ==
    [][/\ \A k \in Kids \ {"1"} :
              (/\ resp.op = "none" /\ resp'.op = "request"
               /\ resp'.gate = "multikey"
               /\ ValidUnder(resp', k)) =>
                  IF CacheLookup(keyCache, k).exists
                  THEN /\ resp'.fetched = "no"
                       /\ resp'.out.handlerCalled /\ resp'.out.status # 401
                       /\ keyCache' = keyCache
                  ELSE /\ resp'.fetched \in {"ok", "failed"}
                       /\ resp'.fetched = "ok" =>
                              /\ resp'.out.handlerCalled /\ resp'.out.status # 401
                              /\ keyCache'[k] = KeyOf(k)
                       /\ resp'.fetched = "failed" =>
                              /\ ~resp'.out.handlerCalled
                              /\ keyCache' = keyCache
       /\ \A k \in KeyIDs :
              CacheLookup(keyCache, k).exists => keyCache'[k] = keyCache[k]
      ]_vars

\* The cache held key "1" and key "2"; a valid token signed by key "2" has
\* been let through without a call of the provider.
C35_Witness ==
    /\ resp.op = "request" /\ resp.gate = "multikey"
    /\ ValidUnder(resp, "2")
    /\ keyCache["1"] = KeyOf("1") /\ keyCache["2"] = KeyOf("2")
    /\ resp.fetched = "no"
    /\ resp.out.handlerCalled

----------------------------------------------------------------------------
(* Properties of the proxy as wired                                        *)

\* The handler has run: it is past its first statement, or has dialled,
\* or has taken the connection over.
HandlerRan ==
    \/ tunnel.pc \notin {"listen", "rejected", "method"}
    \/ tunnel.dials > 0 \/ Dialled \/ Hijacked

\* C36: the CONNECT handler runs only for a request the gate has let
\* through.  A request the gate has rejected is answered 401 by the
\* middleware and the handler is never entered for it: no dial is made, no
\* target connection exists and the client connection is not taken over.
C36_TunnelOnlyAfterAccept ==
    /\ (HandlerRan \/ tunnel.pc = "method") =>
           (/\ resp.op = "request"
            /\ resp.out.handlerCalled /\ resp.out.err = "" /\ resp.out.status # 401)
    /\ (resp.op = "request" /\ (resp.out.status = 401 \/ resp.out.err # "")) =>
           /\ tunnel.pc = "rejected" /\ ~HandlerRan
           /\ tunnel.status = 401 /\ tunnel.wrote = <<401>>

\* A CONNECT to a reachable target, with a token whose jti is revoked, has
\* been rejected by the JWTValidator: no dial and no takeover.
C36_Witness ==
    /\ resp.op = "request" /\ resp.gate = "jwt"
    /\ resp.out.err = "TokenRevoked" /\ resp.out.status = 401
    /\ tunnel.req.Method = "CONNECT" /\ tunnel.req.Host = "up"
    /\ tunnel.pc = "rejected"
    /\ tunnel.dials = 0 /\ ~Dialled /\ ~Hijacked

----------------------------------------------------------------------------
(* Properties of the signing key's record                                  *)

\* C37: when GET /token issues a token, the record of the key it signs
\* with has been put into the store, successfully, before: the store
\* holds a record of that key id, for the first key as for a rotated one.
C37_SignedByPersistedKey ==
    [][\A r \in Reqs :
          (pc[r] = "sign" /\ pc'[r] = "done" /\ status'[r] = 200) =>
              /\ signedWith'[r] = jwtKey.kid
              /\ \E x \in db : x.kid = jwtKey.kid /\ x.expiresAt = jwtKey.expiresAt
      ]_vars

\* C38: when the proxy's main has registered successfully and its
\* DeregisterProxyServer call for the same server returns, a DELETE carrying
\* the revocation token of the registration was sent, and if the call
\* returned no error the server's proxyUrl is not in the fleet listing.
C38_DeregisterSendsGrantedToken ==
    [][(proxyMain.pc # "exited" /\ proxyMain'.pc = "exited" /\ proxyMain.given # "") =>
           /\ proxyMain'.sent = proxyMain.given
           /\ ~proxyMain'.deregErr =>
                  \A e \in Listing(servers') :
                      e["proxyUrl"] # proxyMain.server["ProxyURL"]
      ]_vars

\* C39: a FetchRevoked that fails leaves the local revocation set as it
\* was; when one has returned without error every jti of the list it
\* fetched is revoked locally; and no step of the proxy takes a jti out of
\* the local set.
C39_FetchOnlyAdds ==
    [][/\ (fetchRevoked.pc = "idle" /\ fetchRevoked'.pc = "idle" /\
           fetchRevoked'.calls # fetchRevoked.calls) =>
              /\ fetchRevoked'.err # ""
              /\ revokedTokens' = revokedTokens
       /\ (fetchRevoked.pc = "loop" /\ fetchRevoked'.pc = "idle") =>
              /\ fetchRevoked'.err = ""
              /\ Elems(fetchRevoked'.list) \subseteq revokedTokens'
       /\ revokedTokens \subseteq revokedTokens'
      ]_vars

\* A fetch of two jtis has returned without error on a proxy where another
\* jti had been revoked through the local service, and a later fetch has
\* failed: all three are revoked.
C39_Witness ==
    /\ fetchRevoked.pc = "idle"
    /\ fetchRevoked.calls = 2
    /\ fetchRevoked.err = "status"
    /\ revokeCalled = {"j1"}
    /\ revokedTokens = {"j1", "j2", "j3"}

\* The locks a request holds on jwtKeyMutex.
Holds(r) == r \in readers \/ writer = r

\* The request can take its next step.
CanStep(r) ==
    ENABLED (\/ TokenRLock(r)
             \/ TokenCheck(r)
             \/ TokenLock(r)
             \/ \E genErr \in BOOLEAN, storeErr \in BOOLEAN : TokenNewKey(r, genErr, storeErr)
             \/ \E storeErr \in BOOLEAN : TokenStore(r, storeErr)
             \/ \E signErr \in BOOLEAN : TokenSign(r, signErr))

\* How far a request has come.
Progress(p) ==
    CASE p = "idle" -> 0 [] p = "check" -> 1 [] p = "lock" -> 2
      [] p = "newkey" -> 3 [] p = "store" -> 4 [] p = "sign" -> 5
      [] p = "done" -> 6

\* C40: under every interleaving of GET /token requests a request that has
\* returned, or has not yet asked for the lock, holds no lock on the
\* signing-key mutex; the write lock excludes readers; a request that
\* holds a lock can always go on, and while a request has not returned
\* some request can go on (no deadlock); and every step of a request takes
\* it nearer to its return, so every request returns.
C40_LocksReleased ==
    /\ [](/\ \A r \in Reqs : pc[r] \in {"idle", "lock", "done"} => ~Holds(r)
          /\ \A r \in Reqs : pc[r] \in {"check", "newkey", "store"} => Holds(r)
          /\ writer # NoReq => readers = {}
          /\ \A r \in Reqs : Holds(r) => CanStep(r)
          /\ (\E r \in Reqs : pc[r] # "done") => \E r \in Reqs : CanStep(r))
    /\ [][\A r \in Reqs : pc'[r] # pc[r] => Progress(pc'[r]) > Progress(pc[r])]_vars

\* All requests have returned and no lock is held, after a rotation that
\* failed and one that succeeded while two other requests had seen the
\* expired key and asked for the write lock.
C40_Witness ==
    /\ \A r \in Reqs : pc[r] = "done"
    /\ readers = {} /\ writer = NoReq
    /\ \E r \in Reqs : status[r] = 500
    /\ \E r \in Reqs : status[r] = 200 /\ signedWith[r] > 1
    /\ Cardinality({r \in Reqs : seen[r] # 0}) >= 2
    /\ Len(rotations) >= 1

====
